---- MODULE Spec2Model ----
(***************************************************************************)
(* A model of mono's build-artifact cache (internal/mono/cache.go).        *)
(*                                                                         *)
(* State: the artifact trees of the working copies, the cache directory    *)
(* (<home>/cache_local/<project>/<artifact>/<key>/<basename>/...), the     *)
(* per-entry lock files, and, for every working copy, the position of the  *)
(* mono process that acts on it.  A step of a process is one filesystem    *)
(* call that other processes can observe (mkdir, rename, link, flock,      *)
(* stat, remove); calls that touch only the process's own working copy are *)
(* taken together with the call that follows or precedes them.             *)
(***************************************************************************)
EXTENDS Naturals, Sequences, FiniteSets, TLC

\* ------------------------------------------------------------------ bounds

\* user builds, in all working copies together
MaxBuilds == 2
\* cache operations the processes may start, all together
MaxOps == 3

\* --------------------------------------------------------------- the world

Root == "r"
Envs == {"a", "b"}
WCs == Envs \cup {Root}

None == "none"
NoTree == [exists |-> FALSE, files |-> << >>]
NoFile == "nofile"

\* --------------------------------------------------------- path operations
\* A relative path is the sequence of its components.

Base(path) == path[Len(path)]

\* the name stems of the files builds write; HasSuffix decomposes a name
Stems == {"liba", "main", "pkg", "tool", ".cargo-lock", ".bin", "dep-lib-liba"}

HasSuffix(name, suffix) == \E stem \in Stems : name = stem \o suffix

\* what follows "dep-" in those names; HasPrefix decomposes a name
Rests == {"lib-liba"}

HasPrefix(name, prefix) == \E rest \in Rests : name = prefix \o rest

\* cache.go shouldSkipCargoPath; isDir: the walker passes relPath + "/"
shouldSkipCargoPath(relPath, isDir) ==
    \/ ~isDir /\ HasSuffix(Base(relPath), ".o")
    \/ ~isDir /\ HasSuffix(Base(relPath), ".d")
    \/ \E j \in 1..Len(relPath) :
          /\ relPath[j] = "incremental"
          /\ (j < Len(relPath) \/ isDir)
    \/ ~isDir /\ relPath = <<".cargo-lock">>

\* cache.go shouldSkipPath
shouldSkipPath(relPath, isDir, artifactName) ==
    IF artifactName = "cargo" THEN shouldSkipCargoPath(relPath, isDir) ELSE FALSE

\* ---------------------------------------------------------------- artifacts

\* config.go toArtifactConfig for a lockfile found in directory dir
\* (<<>> is the working-copy root)
\* a name that is left as it is
SameName(name) == name

\* strings.ToLower(strings.ReplaceAll(name, ".", "-")) for the names of the
\* directories of the model
LowerHyphen(name) ==
    CASE name = "a.b" -> "a-b"
      [] name = "Web" -> "web"
      [] OTHER -> name

\* config.go sanitizeName(dir): separators and dots become hyphens, letters
\* lower case
RECURSIVE sanitizeName(_)
sanitizeName(dir) ==
    IF Len(dir) = 1 THEN LowerHyphen(dir[1])
    ELSE LowerHyphen(dir[1]) \o "-" \o sanitizeName(Tail(dir))

toArtifactConfig(spec, dir) ==
    [ Name        |-> IF dir = <<>> THEN spec.baseType
                      ELSE spec.baseType \o "-" \o sanitizeName(dir),
      KeyFiles    |-> << dir \o <<spec.filename>> >>,
      KeyCommands |-> << spec.keyCommand >>,
      Paths       |-> << dir \o <<spec.artifactDir>> >> ]

CargoSpec == [filename |-> "Cargo.lock", artifactDir |-> "target",
              keyCommand |-> "rustc --version", baseType |-> "cargo"]
NpmSpec == [filename |-> "package-lock.json", artifactDir |-> "node_modules",
            keyCommand |-> "node --version", baseType |-> "npm"]

\* an artifact configured in mono.yml whose two directories have one name
TwinArtifact ==
    [ Name        |-> "deps",
      KeyFiles    |-> << <<"deps.lock">> >>,
      KeyCommands |-> << >>,
      Paths       |-> << <<"a", "node_modules">>, <<"b", "node_modules">> >> ]

\* an artifact configured in mono.yml with two directories
AssetsArtifact ==
    [ Name        |-> "assets",
      KeyFiles    |-> << <<"assets.lock">> >>,
      KeyCommands |-> << >>,
      Paths       |-> << <<"out">>, <<"gen">> >> ]

\* what a finished build leaves in an artifact directory, and the marker a
\* running cargo build keeps there
IsCargoKind(a) == \E d \in {<<>>, <<"sub">>} : a = toArtifactConfig(CargoSpec, d)

IsNpmKind(a) == \E d \in {<<>>, <<"web">>} : a = toArtifactConfig(NpmSpec, d)

BuildOutput(a) ==
    IF IsCargoKind(a)
    THEN << <<"debug", ".fingerprint", "liba", "dep-lib-liba">>, <<"main.o">> >>
    ELSE IF IsNpmKind(a) THEN << <<".bin", "tool">>, <<"pkg.js">> >>
    ELSE << <<"blob">> >>

CargoLockMarker == <<".cargo-lock">>

\* filepath.Walk / WalkDir visit a directory in lexical order
WalkOrder ==
    << <<".bin", "tool">>, <<".cargo-lock">>, <<"blob">>,
       <<"debug", ".fingerprint", "liba", "dep-lib-liba">>,
       <<"main.o">>, <<"pkg.js">> >>

\* ------------------------------------------------------------------- state

VARIABLES
    artifact,   \* the ArtifactConfig of this project (config.go ArtifactConfig)
    xdev,       \* the working copies that are on another device than the cache
    keyFile,    \* [WCs -> bytes of the artifact's key file, or NoFile]
    cmdOut,     \* stdout of the artifact's key command, or CmdFail
    tree,       \* [WCs -> [path index -> NoTree or
                \*    [exists, files: [file -> [ino, data, mtime]]]]]
    cacheDir,   \* [key -> whether <project>/<artifact>/<key> is a directory]
    cacheSub,   \* [key -> [basename -> NoTree or tree]]: <key>/<basename>
    lockFile,   \* [key -> whether <key>.lock exists]
    lockHeld,   \* [key -> the process holding the flock of the file that is now
                \*    at <key>.lock, or None]
    inoCount,   \* [creator -> inodes it has created]
    builds,     \* user builds started so far
    entry,      \* [Envs -> the ArtifactCacheEntry of the last Prepare, or None]
    proc,       \* [Envs -> the state of the mono process on that working copy]
    opsUsed,    \* cache operations started so far
    call        \* a function of its arguments alone that is being applied:
                \* [fn, in, out], out = Pending before it returns and then
                \* the sequence of the one value returned; else NoCall

vars == << artifact, xdev, keyFile, cmdOut, tree, cacheDir, cacheSub, lockFile,
           lockHeld, inoCount, builds, entry, proc, opsUsed, call >>

CmdFail == "cmdfail"

NoCall == [fn |-> "none"]
Pending == << >>

\* ------------------------------------------------------------ key building

\* hex(sha256(bytes))[:16]: the truncated digest, taken as free of collisions,
\* so as an injective function of the hashed bytes
Digest16(bytes) == "k(" \o bytes \o ")"

\* a key file that exists and cannot be opened or read (not os.IsNotExist)
ReadFail == "readfail"

\* key files of which a missing one leaves a mark in the hash
RECURSIVE KeyFileBytesMarking(_, _)
KeyFileBytesMarking(keyFiles, read) ==
    IF keyFiles = << >> THEN ""
    ELSE (IF read[Head(keyFiles)] = NoFile THEN "-" ELSE read[Head(keyFiles)])
         \o KeyFileBytesMarking(Tail(keyFiles), read)

\* key commands whose outputs are not hashed
KeyCommandBytesNone(keyCommands, run) == ""

\* cache.go ComputeCacheKey lines 76-90: what io.Copy writes to the hash, the
\* bytes of the key files that exist, in the order of artifact.KeyFiles; a
\* missing file is passed over (continue).  read: [key file -> its bytes, or
\* NoFile, or ReadFail]
RECURSIVE KeyFileBytes(_, _)
KeyFileBytes(keyFiles, read) ==
    IF keyFiles = << >> THEN ""
    ELSE (IF read[Head(keyFiles)] = NoFile THEN "" ELSE read[Head(keyFiles)])
         \o KeyFileBytes(Tail(keyFiles), read)

\* lines 92-98: what h.Write gets, the outputs of the key commands in the
\* order of artifact.KeyCommands.  run: [command -> its stdout, or CmdFail]
RECURSIVE KeyCommandBytes(_, _)
KeyCommandBytes(keyCommands, run) ==
    IF keyCommands = << >> THEN ""
    ELSE run[Head(keyCommands)] \o KeyCommandBytes(Tail(keyCommands), run)

\* a key computation that passes over a key command that fails, as it passes
\* over a key file that is missing
ComputeCacheKeyLenient(a, read, run) ==
    IF \E i \in 1..Len(a.KeyFiles) : read[a.KeyFiles[i]] = ReadFail
    THEN [err |-> TRUE, key |-> ""]
    ELSE [err |-> FALSE, key |-> Digest16(KeyFileBytes(a.KeyFiles, read))]

\* cache.go ComputeCacheKey(artifact, envPath), with the files of envPath and
\* the commands as functions: [err, key].  Nothing separates the inputs in
\* the hash: the key files "ab", "c" and "a", "bc" are hashed alike
ComputeCacheKeyIn(a, read, run) ==
    IF \/ \E i \in 1..Len(a.KeyFiles) : read[a.KeyFiles[i]] = ReadFail
       \/ \E i \in 1..Len(a.KeyCommands) : run[a.KeyCommands[i]] = CmdFail
    THEN [err |-> TRUE, key |-> ""]
    ELSE [err |-> FALSE,
          key |-> Digest16(KeyFileBytes(a.KeyFiles, read)
                           \o KeyCommandBytes(a.KeyCommands, run))]

\* ComputeCacheKey for an artifact whose key files all hold kf and whose key
\* commands all print out
ComputeCacheKey(a, kf, out) ==
    ComputeCacheKeyIn(a, [f \in {a.KeyFiles[i] : i \in 1..Len(a.KeyFiles)} |-> kf],
                         [c \in {a.KeyCommands[i] : i \in 1..Len(a.KeyCommands)} |-> out])

CmdOutputs == {"v1"}

\* the keys of the project's artifact in the working copies, and the names
\* its paths have under cachePath
Keys == { ComputeCacheKey(artifact, keyFile[w], cmdOut).key : w \in DOMAIN keyFile }

CacheChildren == { Base(artifact.Paths[j]) : j \in 1..Len(artifact.Paths) }

\* cache.go dirExists on <cachePath> and on <cachePath>/<name>

\* a test of cachePath that never finds the entry
dirExistsNever(k) == FALSE

\* a test of cachePath + ".lock" instead of cachePath
dirExistsLockPath(k) == lockFile[k]

dirExistsCache(k) == cacheDir[k]

CacheChild(k, name) ==
    IF cacheDir[k] /\ name \in DOMAIN cacheSub[k] THEN cacheSub[k][name] ELSE NoTree

\* ------------------------------------------------------------ trees, inodes

EmptyDir == [exists |-> TRUE, files |-> << >>]

\* the files of a tree, in walk order
RECURSIVE WalkFrom(_, _)
WalkFrom(t, j) ==
    IF j > Len(WalkOrder) THEN << >>
    ELSE IF WalkOrder[j] \in DOMAIN t.files
         THEN <<WalkOrder[j]>> \o WalkFrom(t, j + 1)
         ELSE WalkFrom(t, j + 1)

\* a walk that stops after the first file
WalkFirstOnly(t) == SubSeq(WalkFrom(t, 1), 1, 1)

Walk(t) == WalkFrom(t, 1)

NewIno(creator, n) == <<creator, inoCount[creator] + n>>

\* a file written afresh: its content is named after the inode first holding
\* it, and its mtime after the write that set it
FreshFile(creator, n) ==
    [ino |-> NewIno(creator, n), data |-> NewIno(creator, n),
     mtime |-> <<"write", NewIno(creator, n)>>]

\* cache.go copyFile: a new inode at the destination with the source's bytes
copyFile(srcFile, creator, n) ==
    [ino |-> NewIno(creator, n), data |-> srcFile.data,
     mtime |-> <<"write", NewIno(creator, n)>>]

\* time.Now(): the clock advances when a cache operation starts
Now == <<"now", <<"clock", opsUsed>>>>

\* os.Link as cache.go linkOrCopyFile and HardlinkTree use it: an existing
\* destination is success, a cross-device link falls back to copyFile
\* a link that gives up on a cross-device error instead of copying
linkOnly(dst, f, srcFile, cross, creator) ==
    IF f \in DOMAIN dst.files \/ cross THEN dst
    ELSE [dst EXCEPT !.files = (f :> srcFile) @@ @]

\* a copy in every case, never a link
copyAlways(dst, f, srcFile, cross, creator) ==
    IF f \in DOMAIN dst.files THEN dst
    ELSE [dst EXCEPT !.files = (f :> copyFile(srcFile, creator, 1)) @@ @]

linkOrCopyFile(dst, f, srcFile, cross, creator) ==
    IF f \in DOMAIN dst.files THEN dst
    ELSE IF cross THEN [dst EXCEPT !.files = (f :> copyFile(srcFile, creator, 1)) @@ @]
    ELSE [dst EXCEPT !.files = (f :> srcFile) @@ @]

\* os.Create on an existing file truncates it in place: every link to that
\* inode, in whatever tree, then reads the bytes written
WriteInode(t, ino, data) ==
    IF ~t.exists THEN t
    ELSE [t EXCEPT !.files = [g \in DOMAIN t.files |->
                                IF t.files[g].ino = ino
                                THEN [ino |-> ino, data |-> data,
                                      mtime |-> <<"rewrite", data>>]
                                ELSE t.files[g]]]

\* os.Chtimes(path, now, now) on the files with these inodes: the times are
\* the inode's, so every link to it, in whatever tree, shows them
Chtimes(t, inos, now) ==
    IF ~t.exists THEN t
    ELSE [t EXCEPT !.files = [g \in DOMAIN t.files |->
                                IF t.files[g].ino \in inos
                                THEN [t.files[g] EXCEPT !.mtime = now]
                                ELSE t.files[g]]]

CopiesInode(dst, f, cross) == f \notin DOMAIN dst.files /\ cross

\* os.Rename of a directory (Go): an existing destination directory is
\* EEXIST, a missing parent ENOENT, another device EXDEV
RenameResult(parentExists, dstExists, cross) ==
    IF dstExists THEN "EEXIST"
    ELSE IF ~parentExists THEN "ENOENT"
    ELSE IF cross THEN "EXDEV"
    ELSE "ok"

\* cache.go isCrossDevice
isCrossDevice(err) == err = "EXDEV"

\* ------------------------------------------------------------ process state

\* where the artifact tree of a working copy comes from: nothing known, a
\* build ("built"), a Store ("stored"), a Sync that moved it and linked it
\* back ("synced"), or a Restore ("restored")
NoOrigin == [how |-> "none", key |-> ""]

\* pc, i, todo, src, key, hb: the position and the locals of the running call;
\* op, res: the call and its result; what the properties need to know of the
\* past: pre, the trees of the working copy when the call began; found,
\* whether cache_path was a directory then; cpre, for a Restore, what
\* cache_path held then; moved, whether the call has put a
\* tree into the cache; solo, whether no other call has run since it began;
\* origin; seeded, the key of the entry the last SeedFromRoot of this process
\* has filled from root, alone and from nothing
Idle == [pc |-> "idle", op |-> "none", res |-> "none", key |-> "", hb |-> FALSE,
         i |-> 0, todo |-> << >>, src |-> "", moved |-> FALSE, solo |-> TRUE,
         pre |-> << >>, found |-> FALSE, cpre |-> << >>, origin |-> NoOrigin,
         seeded |-> ""]

NoEntry == [valid |-> FALSE, Key |-> "", Hit |-> FALSE]

NPaths == Len(artifact.Paths)

\* the first index >= j of an artifact path that is a directory in w, else NPaths+1
RECURSIVE NextDirIn(_, _, _)
NextDirIn(trees, n, j) ==
    IF j > n THEN n + 1
    ELSE IF trees[j].exists THEN j
    ELSE NextDirIn(trees, n, j + 1)

NextDir(w, j) == NextDirIn(tree[w], NPaths, j)

PathBase(j) == Base(artifact.Paths[j])

KeyOf(w) == ComputeCacheKey(artifact, keyFile[w], cmdOut)

\* a process starts an operation: it is counted, the working copy as it was is
\* remembered, and every running operation is no longer alone
Begin(p, op, pcv, fields) ==
    /\ opsUsed' = opsUsed + 1
    /\ proc' = [q \in Envs |->
               IF q = p
               THEN [Idle EXCEPT !.pc = pcv, !.op = op,
                                 !.pre = tree[p],
                                 !.found = fields.key \in DOMAIN cacheDir /\ cacheDir[fields.key],
                                 !.cpre = IF op = "restore" THEN cacheSub[fields.key]
                                          ELSE << >>,
                                 !.origin = IF op \in {"prepare", "seed", "sync"}
                                            THEN proc[p].origin ELSE NoOrigin,
                                 !.seeded = IF op = "seed" THEN "" ELSE proc[p].seeded,
                                 !.src = fields.src,
                                 !.key = fields.key, !.hb = fields.hb, !.i = fields.i,
                                 !.res = fields.res,
                                 !.solo = \A r \in Envs \ {p} : proc[r].pc = "idle"]
               ELSE [proc[q] EXCEPT !.solo = (proc[q].pc = "idle")] ]

\* a return is taken by the caller before any process takes another step
NoReturnPending == \A q \in Envs : proc[q].pc # "done"

\* process p is about to execute the step labelled pcv
At(p, pcv) == proc[p].pc = pcv /\ NoReturnPending

\* the caller has taken the result: the process is ready for its next call
Ack(p) ==
    /\ proc[p].pc = "done"
    /\ proc' = [proc EXCEPT ![p] = [Idle EXCEPT !.origin = proc[p].origin,
                                                !.seeded = proc[p].seeded]]
    /\ UNCHANGED << call, artifact, xdev, keyFile, cmdOut, tree, cacheDir, cacheSub,
                    lockFile, lockHeld, inoCount, builds, entry, opsUsed >>

CanBegin(p) == At(p, "idle") /\ opsUsed < MaxOps

\* the operation returns
Return(st, result) ==
    [st EXCEPT !.pc = "done", !.res = result, !.todo = << >>,
               !.origin = IF result # "ok" \/ st.op \in {"prepare", "seed"} THEN @
                          ELSE IF st.op = "restore" THEN [how |-> "restored", key |-> st.key]
                          ELSE IF st.op = "store" THEN [how |-> "stored", key |-> st.key]
                          ELSE IF st.moved /\ st.hb THEN [how |-> "synced", key |-> st.key]
                          ELSE IF st.moved THEN NoOrigin
                          ELSE @,
               !.seeded = IF st.op = "seed" /\ result = "ok" /\ st.solo /\ ~st.found
                          THEN st.key ELSE @]

\* -------------------------------------------------------------------- Init

RootTree(a) ==
    [exists |-> TRUE,
     files |-> [f \in {BuildOutput(a)[j] : j \in 1..Len(BuildOutput(a))} |->
                  LET n == CHOOSE j \in 1..Len(BuildOutput(a)) : BuildOutput(a)[j] = f
                  IN  [ino |-> <<Root, n>>, data |-> <<Root, n>>,
                       mtime |-> <<"write", <<Root, n>>>>]]]

InitDisk ==
    /\ cacheDir = [k \in Keys |-> FALSE]
    /\ cacheSub = [k \in Keys |-> [c \in CacheChildren |-> NoTree]]
    /\ lockFile = [k \in Keys |-> FALSE]
    /\ lockHeld = [k \in Keys |-> None]
    /\ builds = 0
    /\ entry = [w \in Envs |-> NoEntry]
    /\ proc = [w \in Envs |-> Idle]
    /\ opsUsed = 0

InitFS == InitDisk /\ call = NoCall

\* where the working copies are and what their key files hold
SameDevice == [xdev |-> {}, keyFile |-> [w \in WCs |-> "L1"]]
\* a is on another device than the cache
OtherDevice == [xdev |-> {"a"}, keyFile |-> [w \in WCs |-> "L1"]]
\* b has another lockfile
OtherLockfile ==
    [xdev |-> {}, keyFile |-> [w \in WCs |-> IF w = "b" THEN "L2" ELSE "L1"]]
\* a has no lockfile
NoLockfile ==
    [xdev |-> {}, keyFile |-> [w \in WCs |-> IF w = "a" THEN NoFile ELSE "L1"]]

Scenarios == {SameDevice, OtherDevice, OtherLockfile, NoLockfile}

\* the projects the model runs with: an artifact and a scenario
Configurations ==
    { [artifact |-> toArtifactConfig(CargoSpec, <<>>), sc |-> SameDevice],
      [artifact |-> toArtifactConfig(CargoSpec, <<>>), sc |-> OtherLockfile],
      [artifact |-> toArtifactConfig(CargoSpec, <<>>), sc |-> NoLockfile],
      [artifact |-> toArtifactConfig(CargoSpec, <<"sub">>), sc |-> SameDevice],
      [artifact |-> toArtifactConfig(NpmSpec, <<>>), sc |-> SameDevice],
      [artifact |-> toArtifactConfig(NpmSpec, <<>>), sc |-> OtherDevice] }

\* the state of a project before any cache operation: root is built, the
\* other working copies are fresh worktrees, the cache is empty
InitWith(a, sc) ==
    /\ artifact = a
    /\ xdev = sc.xdev /\ keyFile = sc.keyFile
    /\ cmdOut \in CmdOutputs
    /\ tree = [w \in WCs |-> [j \in 1..Len(a.Paths) |->
                 IF w = Root THEN RootTree(a) ELSE NoTree]]
    /\ inoCount = [w \in WCs |-> IF w = Root THEN Len(BuildOutput(a)) ELSE 0]
    /\ InitFS

Init == \E c \in Configurations : InitWith(c.artifact, c.sc)

\* ------------------------------------------------------------- user builds

\* a cargo build starts in working copy w: it creates the target directory
\* and keeps .cargo-lock in it while it runs
UserBuildStart(w) ==
    /\ At(w, "idle")
    /\ IsCargoKind(artifact)
    /\ builds < MaxBuilds
    /\ CargoLockMarker \notin DOMAIN tree[w][1].files
    /\ builds' = builds + 1
    /\ tree' = [tree EXCEPT ![w][1] =
                  [exists |-> TRUE,
                   files |-> (CargoLockMarker :> FreshFile(w, 1)) @@ tree[w][1].files]]
    /\ inoCount' = [inoCount EXCEPT ![w] = @ + 1]
    /\ proc' = [proc EXCEPT ![w].origin = [how |-> "built", key |-> ""]]
    /\ UNCHANGED << call, artifact, xdev, keyFile, cmdOut, cacheDir, cacheSub, lockFile,
                    lockHeld, entry, opsUsed >>

\* the build (or, for the other kinds, the install) finishes: every artifact
\* directory holds freshly written output and no marker
UserBuildFinish(w) ==
    /\ At(w, "idle")
    /\ IF IsCargoKind(artifact)
       THEN /\ CargoLockMarker \in DOMAIN tree[w][1].files
            /\ UNCHANGED builds
       ELSE /\ builds < MaxBuilds
            /\ builds' = builds + 1
    /\ LET out == BuildOutput(artifact)
           n == Len(out)
       IN  /\ tree' = [tree EXCEPT ![w] =
                  [j \in 1..NPaths |->
                     [exists |-> TRUE,
                      files |-> [f \in {out[x] : x \in 1..n} |->
                         FreshFile(w, (j - 1) * n +
                                      (CHOOSE x \in 1..n : out[x] = f))]]]]
           /\ inoCount' = [inoCount EXCEPT ![w] = @ + NPaths * n]
    /\ proc' = [proc EXCEPT ![w].origin = [how |-> "built", key |-> ""]]
    /\ UNCHANGED << call, artifact, xdev, keyFile, cmdOut, cacheDir, cacheSub, lockFile,
                    lockHeld, entry, opsUsed >>

\* ----------------------------------------------------------------- Prepare

\* cache.go PrepareArtifactCache for the project's artifact: the key of the
\* working copy and the directory test of its cache path
PrepareArtifactCache(p) ==
    /\ CanBegin(p)
    /\ LET k == KeyOf(p)
       IN  /\ entry' = [entry EXCEPT ![p] =
                  IF k.err THEN NoEntry
                  ELSE [valid |-> TRUE, Key |-> k.key, Hit |-> dirExistsCache(k.key)]]
           /\ Begin(p, "prepare", "done", [key |-> k.key, hb |-> FALSE, i |-> 0, src |-> "",
                     res |-> IF k.err THEN "err" ELSE "ok"])
    /\ UNCHANGED << call, artifact, xdev, keyFile, cmdOut, tree, cacheDir, cacheSub,
                    lockFile, lockHeld, inoCount, builds >>

\* ------------------------------------------------------------ HardlinkTree

\* cache.go HardlinkTree(<cachePath>/<base>, envPath), the walk's visit of the
\* root: a source that is gone ends the walk with an error, else MkdirAll(dst)
\* and the directory is read
HardlinkTreeRoot(p, k, base, okpc) ==
    LET src == CacheChild(k, base)
        j == proc[p].i
    IN  IF ~src.exists
        THEN /\ proc' = [proc EXCEPT ![p] = [@ EXCEPT !.pc = "hl_failed"]]
             /\ UNCHANGED tree
        ELSE /\ tree' = [tree EXCEPT ![p][j] =
                           IF @.exists THEN @ ELSE EmptyDir]
             /\ proc' = [proc EXCEPT ![p] =
                           [@ EXCEPT !.pc = okpc, !.todo = Walk(src)]]

\* the walk's visit of the next file: os.Link into the working copy, or
\* the byte copy when the working copy is on another device
HardlinkTreeFile(p, k, base, donepc) ==
    LET src == CacheChild(k, base)
        j == proc[p].i
        f == Head(proc[p].todo)
        rest == Tail(proc[p].todo)
    IN  IF ~src.exists \/ f \notin DOMAIN src.files
        THEN /\ proc' = [proc EXCEPT ![p] = [@ EXCEPT !.pc = "hl_failed"]]
             /\ UNCHANGED << tree, inoCount >>
        ELSE /\ tree' = [tree EXCEPT ![p][j] =
                           linkOrCopyFile(@, f, src.files[f], p \in xdev, p)]
             /\ inoCount' = [inoCount EXCEPT ![p] =
                           IF CopiesInode(tree[p][j], f, p \in xdev) THEN @ + 1 ELSE @]
             /\ proc' = [proc EXCEPT ![p] =
                           [@ EXCEPT !.todo = rest,
                                     !.pc = IF rest = << >> THEN donepc ELSE @]]

\* ------------------------------------------------------------------- Store

\* cache.go StoreToCache(entry), line 592: MkdirAll(entry.CachePath)
StoreMkdir(p) ==
    /\ CanBegin(p)
    /\ entry[p].valid /\ ~entry[p].Hit
    /\ CargoLockMarker \notin DOMAIN tree[p][1].files
    /\ cacheDir' = [cacheDir EXCEPT ![entry[p].Key] = TRUE]
    /\ Begin(p, "store", "st_rename", 
             [key |-> entry[p].Key, hb |-> TRUE, i |-> NextDir(p, 1), src |-> "",
              res |-> "run"])
    /\ UNCHANGED << call, artifact, xdev, keyFile, cmdOut, tree, cacheSub, lockFile,
                    lockHeld, inoCount, builds, entry >>

\* lines 596-605: the next envPath that is a directory is renamed to
\* <cachePath>/<basename>; a rename error is returned
StoreRename(p) ==
    /\ At(p, "st_rename")
    /\ LET j == proc[p].i
           k == proc[p].key
       IN  IF j > NPaths
           THEN /\ proc' = [proc EXCEPT ![p] = Return(@, "ok")]
                /\ UNCHANGED << tree, cacheSub >>
           ELSE LET r == RenameResult(cacheDir[k], CacheChild(k, PathBase(j)).exists,
                                      p \in xdev)
                IN  IF r = "ok"
                    THEN /\ cacheSub' = [cacheSub EXCEPT ![k][PathBase(j)] = tree[p][j]]
                         /\ tree' = [tree EXCEPT ![p][j] = NoTree]
                         /\ proc' = [proc EXCEPT ![p] =
                                       [@ EXCEPT !.pc = "st_hl_root", !.moved = TRUE]]
                    ELSE /\ proc' = [proc EXCEPT ![p] = Return(@, "err")]
                         /\ UNCHANGED << tree, cacheSub >>
    /\ UNCHANGED << call, artifact, xdev, keyFile, cmdOut, cacheDir, lockFile, lockHeld,
                    inoCount, builds, entry, opsUsed >>

\* line 607: HardlinkTree(cacheDst, envPath), the root of the walk
StoreLinkRoot(p) ==
    /\ At(p, "st_hl_root")
    /\ HardlinkTreeRoot(p, proc[p].key, PathBase(proc[p].i), "st_hl_file")
    /\ UNCHANGED << call, artifact, xdev, keyFile, cmdOut, cacheDir, cacheSub, lockFile,
                    lockHeld, inoCount, builds, entry, opsUsed >>

\* an empty tree has no file to visit: on to the next envPath
StoreLinkFile(p) ==
    /\ At(p, "st_hl_file")
    /\ IF proc[p].todo = << >>
       THEN /\ proc' = [proc EXCEPT ![p] =
                          [@ EXCEPT !.pc = "st_rename", !.i = NextDir(p, @ + 1)]]
            /\ UNCHANGED << tree, inoCount >>
       ELSE HardlinkTreeFile(p, proc[p].key, PathBase(proc[p].i), "st_hl_file")
    /\ UNCHANGED << call, artifact, xdev, keyFile, cmdOut, cacheDir, cacheSub, lockFile,
                    lockHeld, builds, entry, opsUsed >>

\* lines 607-609: a failed HardlinkTree is returned as it is
StoreLinkFailed(p) ==
    /\ At(p, "hl_failed") /\ proc[p].op = "store"
    /\ proc' = [proc EXCEPT ![p] = Return(@, "err")]
    /\ UNCHANGED << call, artifact, xdev, keyFile, cmdOut, tree, cacheDir, cacheSub,
                    lockFile, lockHeld, inoCount, builds, entry, opsUsed >>

\* -------------------------------------------------------------------- Sync

\* a test that sees no build marker
noBuildInProgress(w) == FALSE

\* cache.go isBuildInProgress(envPath, artifact)
isBuildInProgress(w) ==
    IF artifact.Name = "cargo"
    THEN \E j \in 1..NPaths :
            /\ artifact.Paths[j] = <<"target">>
            /\ CargoLockMarker \in DOMAIN tree[w][j].files
    ELSE FALSE

\* a release that leaves the flock in place
keepCacheLock(p, k) == lockHeld

\* cache.go releaseCacheLock
releaseCacheLock(p, k) == [lockHeld EXCEPT ![k] = IF @ = p THEN None ELSE @]

\* syncArtifact's loop, after moveToCache returned nil for path st.i
SyncNextPath(st, w) ==
    LET j == NextDir(w, st.i + 1)
    IN  IF j > NPaths THEN Return(st, "ok")
        ELSE [st EXCEPT !.pc = "sy_lock", !.i = j, !.todo = << >>]

\* cache.go syncArtifact lines 666-686: the build-in-progress error, the key,
\* the test of cachePath, and the first artifact path that is a directory
SyncBegin(p, hardlinkBack) ==
    /\ CanBegin(p)
    /\ LET k == KeyOf(p)
           j == NextDir(p, 1)
           res == IF isBuildInProgress(p) \/ k.err THEN "err"
                  ELSE IF dirExistsCache(k.key) \/ j > NPaths THEN "ok"
                  ELSE "run"
       IN  Begin(p, "sync", IF res = "run" THEN "sy_lock" ELSE "done",
                 [key |-> k.key, hb |-> hardlinkBack, i |-> j, src |-> "", res |-> res])
    /\ UNCHANGED << call, artifact, xdev, keyFile, cmdOut, tree, cacheDir, cacheSub,
                    lockFile, lockHeld, inoCount, builds, entry >>

\* an acquisition with a flock that waits for the holder (no LOCK_NB)
SyncLockWaiting(p) ==
    /\ At(p, "sy_lock")
    /\ lockHeld[proc[p].key] = None
    /\ lockFile' = [lockFile EXCEPT ![proc[p].key] = TRUE]
    /\ lockHeld' = [lockHeld EXCEPT ![proc[p].key] = p]
    /\ proc' = [proc EXCEPT ![p] = [@ EXCEPT !.pc = "sy_check"]]
    /\ UNCHANGED << call, artifact, xdev, keyFile, cmdOut, tree, cacheDir, cacheSub,
                    inoCount, builds, entry, opsUsed >>

\* cache.go acquireCacheLock (lines 619-637) as moveToCache calls it (697-703):
\* the lock file is created, and a flock that another process holds makes
\* moveToCache return nil
SyncLock(p) ==
    /\ At(p, "sy_lock")
    /\ LET k == proc[p].key
       IN  /\ lockFile' = [lockFile EXCEPT ![k] = TRUE]
           /\ IF lockHeld[k] = None
              THEN /\ lockHeld' = [lockHeld EXCEPT ![k] = p]
                   /\ proc' = [proc EXCEPT ![p] = [@ EXCEPT !.pc = "sy_check"]]
              ELSE /\ UNCHANGED lockHeld
                   /\ proc' = [proc EXCEPT ![p] = SyncNextPath(@, p)]
    /\ UNCHANGED << call, artifact, xdev, keyFile, cmdOut, tree, cacheDir, cacheSub,
                    inoCount, builds, entry, opsUsed >>

\* moveToCache lines 706-710: targetInCache already a directory
SyncCheck(p) ==
    /\ At(p, "sy_check")
    /\ LET k == proc[p].key
       IN  IF CacheChild(k, PathBase(proc[p].i)).exists
           THEN /\ lockHeld' = releaseCacheLock(p, k)
                /\ proc' = [proc EXCEPT ![p] = SyncNextPath(@, p)]
           ELSE /\ UNCHANGED lockHeld
                /\ proc' = [proc EXCEPT ![p] = [@ EXCEPT !.pc = "sy_mkdir"]]
    /\ UNCHANGED << call, artifact, xdev, keyFile, cmdOut, tree, cacheDir, cacheSub,
                    lockFile, inoCount, builds, entry, opsUsed >>

\* moveToCache line 712: MkdirAll(cachePath)
SyncMkdir(p) ==
    /\ At(p, "sy_mkdir")
    /\ cacheDir' = [cacheDir EXCEPT ![proc[p].key] = TRUE]
    /\ proc' = [proc EXCEPT ![p] = [@ EXCEPT !.pc = "sy_rename"]]
    /\ UNCHANGED << call, artifact, xdev, keyFile, cmdOut, tree, cacheSub, lockFile,
                    lockHeld, inoCount, builds, entry, opsUsed >>

\* moveToCache lines 716-721 and 723, 737: the rename of localPath to
\* targetInCache; cross-device goes to copyToCache, another error is returned
SyncRename(p) ==
    /\ At(p, "sy_rename")
    /\ LET j == proc[p].i
           k == proc[p].key
           r == RenameResult(cacheDir[k], CacheChild(k, PathBase(j)).exists, p \in xdev)
       IN  IF r = "ok"
           THEN /\ cacheSub' = [cacheSub EXCEPT ![k][PathBase(j)] = tree[p][j]]
                /\ tree' = [tree EXCEPT ![p][j] = NoTree]
                /\ IF proc[p].hb
                   THEN /\ proc' = [proc EXCEPT ![p] =
                                      [@ EXCEPT !.pc = "sy_hl_root", !.moved = TRUE]]
                        /\ UNCHANGED lockHeld
                   ELSE /\ proc' = [proc EXCEPT ![p] =
                                      SyncNextPath([@ EXCEPT !.moved = TRUE], p)]
                        /\ lockHeld' = releaseCacheLock(p, k)
           ELSE IF isCrossDevice(r)
           THEN /\ proc' = [proc EXCEPT ![p] = [@ EXCEPT !.pc = "sy_cp_root"]]
                /\ UNCHANGED << tree, cacheSub, lockHeld >>
           ELSE /\ proc' = [proc EXCEPT ![p] = Return(@, "err")]
                /\ lockHeld' = releaseCacheLock(p, k)
                /\ UNCHANGED << tree, cacheSub >>
    /\ UNCHANGED << call, artifact, xdev, keyFile, cmdOut, cacheDir, lockFile, inoCount,
                    builds, entry, opsUsed >>

\* moveToCache line 724: HardlinkTree(targetInCache, localPath), the root
SyncLinkRoot(p) ==
    /\ At(p, "sy_hl_root")
    /\ HardlinkTreeRoot(p, proc[p].key, PathBase(proc[p].i), "sy_hl_file")
    /\ UNCHANGED << call, artifact, xdev, keyFile, cmdOut, cacheDir, cacheSub, lockFile,
                    lockHeld, inoCount, builds, entry, opsUsed >>

\* the files of the walk; after the last one moveToCache returns nil
SyncLinkFile(p) ==
    /\ At(p, "sy_hl_file")
    /\ IF proc[p].todo = << >>
       THEN /\ proc' = [proc EXCEPT ![p] = SyncNextPath(@, p)]
            /\ lockHeld' = releaseCacheLock(p, proc[p].key)
            /\ UNCHANGED << tree, inoCount >>
       ELSE /\ HardlinkTreeFile(p, proc[p].key, PathBase(proc[p].i), "sy_hl_file")
            /\ UNCHANGED lockHeld
    /\ UNCHANGED << call, artifact, xdev, keyFile, cmdOut, cacheDir, cacheSub, lockFile,
                    builds, entry, opsUsed >>

\* moveToCache line 725: recoverErr := os.Rename(targetInCache, localPath)
SyncRecoverRename(p) ==
    /\ At(p, "hl_failed") /\ proc[p].op = "sync"
    /\ LET j == proc[p].i
           k == proc[p].key
           src == CacheChild(k, PathBase(j))
       IN  IF src.exists /\ RenameResult(TRUE, tree[p][j].exists, p \in xdev) = "ok"
           THEN /\ tree' = [tree EXCEPT ![p][j] = src]
                /\ cacheSub' = [cacheSub EXCEPT ![k][PathBase(j)] = NoTree]
           ELSE UNCHANGED << tree, cacheSub >>
    /\ proc' = [proc EXCEPT ![p] = [@ EXCEPT !.pc = "sy_cleanup"]]
    /\ UNCHANGED << call, artifact, xdev, keyFile, cmdOut, cacheDir, lockFile, lockHeld,
                    inoCount, builds, entry, opsUsed >>

\* moveToCache lines 726-733: cleanupErr := os.RemoveAll(cachePath), and the
\* error is returned
SyncRecoverCleanup(p) ==
    /\ At(p, "sy_cleanup")
    /\ LET k == proc[p].key
       IN  /\ cacheDir' = [cacheDir EXCEPT ![k] = FALSE]
           /\ cacheSub' = [cacheSub EXCEPT ![k] = [c \in DOMAIN @ |-> NoTree]]
           /\ lockHeld' = releaseCacheLock(p, k)
    /\ proc' = [proc EXCEPT ![p] = Return(@, "err")]
    /\ UNCHANGED << call, artifact, xdev, keyFile, cmdOut, tree, lockFile, inoCount,
                    builds, entry, opsUsed >>

\* cache.go copyToCache line 741, copyDir's visit of the root:
\* MkdirAll(targetInCache)
SyncCopyRoot(p) ==
    /\ At(p, "sy_cp_root")
    /\ LET j == proc[p].i
           k == proc[p].key
       IN  /\ cacheDir' = [cacheDir EXCEPT ![k] = TRUE]
           /\ cacheSub' = [cacheSub EXCEPT ![k][PathBase(j)] =
                             IF CacheChild(k, PathBase(j)).exists THEN @ ELSE EmptyDir]
           /\ proc' = [proc EXCEPT ![p] =
                         [@ EXCEPT !.pc = "sy_cp_file", !.todo = Walk(tree[p][j])]]
    /\ UNCHANGED << call, artifact, xdev, keyFile, cmdOut, tree, lockFile, lockHeld,
                    inoCount, builds, entry, opsUsed >>

\* copyDir's visit of the next file (copyFile), and after the last one
\* copyToCache lines 745-749: the local tree is kept when hardlinking back
\* and removed otherwise
SyncCopyFile(p) ==
    /\ At(p, "sy_cp_file")
    /\ LET j == proc[p].i
           k == proc[p].key
           base == PathBase(j)
       IN  IF proc[p].todo = << >>
           THEN /\ tree' = [tree EXCEPT ![p][j] = IF proc[p].hb THEN @ ELSE NoTree]
                /\ proc' = [proc EXCEPT ![p] = SyncNextPath([@ EXCEPT !.moved = TRUE], p)]
                /\ lockHeld' = releaseCacheLock(p, k)
                /\ UNCHANGED << cacheSub, inoCount >>
           ELSE IF ~CacheChild(k, base).exists
           THEN /\ proc' = [proc EXCEPT ![p] = Return(@, "err")]
                /\ lockHeld' = releaseCacheLock(p, k)
                /\ UNCHANGED << tree, cacheSub, inoCount >>
           ELSE LET f == Head(proc[p].todo)
                    dst == CacheChild(k, base)
                    data == tree[p][j].files[f].data
                IN  /\ IF f \in DOMAIN dst.files
                       THEN /\ cacheSub' = [kk \in DOMAIN cacheSub |-> [c \in DOMAIN cacheSub[kk] |->
                                   WriteInode(cacheSub[kk][c], dst.files[f].ino, data)]]
                            /\ tree' = [w \in WCs |-> [n \in 1..NPaths |->
                                   WriteInode(tree[w][n], dst.files[f].ino, data)]]
                            /\ UNCHANGED inoCount
                       ELSE /\ cacheSub' = [cacheSub EXCEPT ![k][base].files =
                                   (f :> copyFile(tree[p][j].files[f], p, 1)) @@ @]
                            /\ inoCount' = [inoCount EXCEPT ![p] = @ + 1]
                            /\ UNCHANGED tree
                    /\ proc' = [proc EXCEPT ![p] = [@ EXCEPT !.todo = Tail(@)]]
                    /\ UNCHANGED lockHeld
    /\ UNCHANGED << call, artifact, xdev, keyFile, cmdOut, cacheDir, lockFile, builds, entry, opsUsed >>

\* ----------------------------------------------------------- SeedDirectory

\* the directories above a file, as relative paths
Ancestors(f) == { SubSeq(f, 1, n) : n \in 1..(Len(f) - 1) }

\* cache.go SeedDirectory lines 293-335: the files the walk collects, in walk
\* order: not skipped themselves and under no skipped directory
RECURSIVE SeedFilesFrom(_, _, _)
SeedFilesFrom(t, artifactName, j) ==
    IF j > Len(WalkOrder) THEN << >>
    ELSE LET f == WalkOrder[j]
             keep == /\ f \in DOMAIN t.files
                     /\ ~shouldSkipPath(f, FALSE, artifactName)
                     /\ \A d \in Ancestors(f) : ~shouldSkipPath(d, TRUE, artifactName)
         IN  (IF keep THEN <<f>> ELSE << >>) \o SeedFilesFrom(t, artifactName, j + 1)

\* a walk that collects no file
SeedFilesNone(t, artifactName) == << >>

SeedFiles(t, artifactName) == SeedFilesFrom(t, artifactName, 1)

\* a sequence without its n-th element
RemoveAt(seq, n) == SubSeq(seq, 1, n - 1) \o SubSeq(seq, n + 1, Len(seq))

\* ----------------------------------------------------------------- Restore

JsKinds == {"npm", "yarn", "pnpm", "bun"}

\* cache.go cleanNodeModulesBin: RemoveAll(<dir>/.bin)
cleanNodeModulesBin(t) ==
    [t EXCEPT !.files = [f \in {g \in DOMAIN t.files : g[1] # ".bin"} |-> t.files[f]]]

\* cache.go touchCargoFingerprints, touchDepFilesParallel: the inodes of the
\* files <targetDir>/<profile>/.fingerprint/<crate>/dep-* (their times are set)
touchCargoFingerprints(t) ==
    { t.files[f].ino : f \in { g \in DOMAIN t.files :
                                 /\ Len(g) = 4
                                 /\ g[1] \in {"debug", "release"}
                                 /\ g[2] = ".fingerprint"
                                 /\ HasPrefix(g[4], "dep-") } }

\* cache.go ApplyPostRestoreFixes: the files it leaves under envPath, and the
\* inodes whose times it sets
ApplyPostRestoreFixes(artifactName, t) ==
    IF artifactName \in JsKinds THEN cleanNodeModulesBin(t) ELSE t

PostRestoreTouched(artifactName, t) ==
    IF artifactName = "cargo" THEN touchCargoFingerprints(t) ELSE {}

\* the working copies and the cache after the post-restore fixes of p's path j,
\* whose materialized tree is t
FixedTrees(p, j, t) ==
    [w \in WCs |-> [n \in 1..NPaths |->
        Chtimes(IF w = p /\ n = j THEN ApplyPostRestoreFixes(artifact.Name, t)
                ELSE tree[w][n],
                PostRestoreTouched(artifact.Name, t), Now)]]

FixedCache(t) ==
    [k \in DOMAIN cacheSub |-> [c \in DOMAIN cacheSub[k] |->
        Chtimes(cacheSub[k][c], PostRestoreTouched(artifact.Name, t), Now)]]

\* cache.go RestoreFromCache(entry, logger) is called
RestoreBegin(p) ==
    /\ CanBegin(p)
    /\ entry[p].valid /\ entry[p].Hit
    /\ CargoLockMarker \notin DOMAIN tree[p][1].files
    /\ Begin(p, "restore", "rs_path",
             [key |-> entry[p].Key, hb |-> FALSE, i |-> 1, src |-> "", res |-> "run"])
    /\ UNCHANGED << call, artifact, xdev, keyFile, cmdOut, tree, cacheDir, cacheSub,
                    lockFile, lockHeld, inoCount, builds, entry >>

\* a Restore that leaves envPath as it is
RestorePathMerging(p) ==
    /\ At(p, "rs_path")
    /\ proc' = [proc EXCEPT ![p] = [@ EXCEPT !.pc = "rs_walk",
                                            !.src = PathBase(proc[p].i)]]
    /\ UNCHANGED << call, artifact, xdev, keyFile, cmdOut, tree, cacheDir, cacheSub, lockFile,
                    lockHeld, inoCount, builds, entry, opsUsed >>

\* lines 433-440: the source in the cache, <cachePath>/<basename> or, when
\* that is no directory, <cachePath>/<entry.Name>; RemoveAll(envPath)
RestorePath(p) ==
    /\ At(p, "rs_path")
    /\ LET j == proc[p].i
           k == proc[p].key
           srcName == IF CacheChild(k, PathBase(j)).exists THEN PathBase(j)
                      ELSE artifact.Name
       IN  /\ tree' = [tree EXCEPT ![p][j] = NoTree]
           /\ proc' = [proc EXCEPT ![p] = [@ EXCEPT !.pc = "rs_walk", !.src = srcName]]
    /\ UNCHANGED << call, artifact, xdev, keyFile, cmdOut, cacheDir, cacheSub, lockFile,
                    lockHeld, inoCount, builds, entry, opsUsed >>

\* after the last file of a path: the post-restore fixes, then the next path
RestoreNextPath(st) ==
    IF st.i + 1 > NPaths THEN Return(st, "ok")
    ELSE [st EXCEPT !.pc = "rs_path", !.i = @ + 1, !.todo = << >>]

\* line 442, copyDirectory -> SeedDirectory: the walk of the source and the
\* creation of the destination directories (MkdirAll); a source that is no
\* directory fails the walk
RestoreWalk(p) ==
    /\ At(p, "rs_walk")
    /\ LET j == proc[p].i
           src == CacheChild(proc[p].key, proc[p].src)
           files == SeedFiles(src, artifact.Name)
           made == IF tree[p][j].exists THEN tree[p][j] ELSE EmptyDir
       IN  IF ~src.exists
           THEN /\ proc' = [proc EXCEPT ![p] = Return(@, "err")]
                /\ UNCHANGED tree
           ELSE IF files = << >>
           THEN /\ tree' = FixedTrees(p, j, made)
                /\ proc' = [proc EXCEPT ![p] = RestoreNextPath(@)]
           ELSE /\ tree' = [tree EXCEPT ![p][j] = made]
                /\ proc' = [proc EXCEPT ![p] =
                              [@ EXCEPT !.pc = "rs_file", !.todo = files]]
    /\ UNCHANGED << call, artifact, xdev, keyFile, cmdOut, cacheDir, cacheSub, lockFile,
                    lockHeld, inoCount, builds, entry, opsUsed >>

\* SeedDirectory lines 357-381: a worker takes any file of the queue and
\* links it (linkOrCopyFile); after the last file, line 446:
\* ApplyPostRestoreFixes on envPath
RestoreFile(p) ==
    /\ At(p, "rs_file")
    /\ \E n \in 1..Len(proc[p].todo) :
         LET j == proc[p].i
             f == proc[p].todo[n]
             rest == RemoveAt(proc[p].todo, n)
             src == CacheChild(proc[p].key, proc[p].src)
         IN  IF ~src.exists \/ f \notin DOMAIN src.files
             THEN /\ proc' = [proc EXCEPT ![p] = Return(@, "err")]
                  /\ UNCHANGED << tree, cacheSub, inoCount >>
             ELSE LET linked == linkOrCopyFile(tree[p][j], f, src.files[f], p \in xdev, p)
                  IN  /\ inoCount' = [inoCount EXCEPT ![p] =
                             IF CopiesInode(tree[p][j], f, p \in xdev) THEN @ + 1 ELSE @]
                      /\ IF rest = << >>
                         THEN /\ tree' = FixedTrees(p, j, linked)
                              /\ cacheSub' = FixedCache(linked)
                              /\ proc' = [proc EXCEPT ![p] = RestoreNextPath(@)]
                         ELSE /\ tree' = [tree EXCEPT ![p][j] = linked]
                              /\ proc' = [proc EXCEPT ![p] = [@ EXCEPT !.todo = rest]]
                              /\ UNCHANGED cacheSub
    /\ UNCHANGED << call, artifact, xdev, keyFile, cmdOut, cacheDir, lockFile,
                    lockHeld, builds, entry, opsUsed >>

\* ------------------------------------------------------------ SeedFromRoot

\* seedArtifactFromRoot's loop, after seedToCache returned nil for path st.i
SeedNextPath(st) ==
    LET j == NextDir(Root, st.i + 1)
    IN  IF j > NPaths THEN Return(st, "ok")
        ELSE [st EXCEPT !.pc = "sd_mkdir", !.i = j, !.todo = << >>]

\* cache.go seedArtifactFromRoot(artifact, rootPath, envPath) lines 787-818:
\* rootPath is envPath itself, the key of the working copy, the test of
\* cachePath, the key of root, the build marker in root, the first artifact
\* path that is a directory in root
seedArtifactFromRoot(p, rootPath) ==
    /\ CanBegin(p)
    /\ LET envKey == KeyOf(p)
           rootKey == KeyOf(rootPath)
           j == NextDir(rootPath, 1)
           res == IF rootPath = p THEN "ok"
                  ELSE IF envKey.err THEN "err"
                  ELSE IF dirExistsCache(envKey.key) THEN "ok"
                  ELSE IF rootKey.err THEN "err"
                  ELSE IF envKey.key # rootKey.key THEN "ok"
                  ELSE IF isBuildInProgress(rootPath) THEN "ok"
                  ELSE IF j > NPaths THEN "ok"
                  ELSE "run"
       IN  Begin(p, "seed", IF res = "run" THEN "sd_mkdir" ELSE "done",
                 [key |-> envKey.key, hb |-> FALSE, i |-> j, src |-> rootPath,
                  res |-> res])
    /\ UNCHANGED << call, artifact, xdev, keyFile, cmdOut, tree, cacheDir, cacheSub,
                    lockFile, lockHeld, inoCount, builds, entry >>

\* SeedFromRoot in a working copy whose project root is the working copy Root
SeedBegin(p) == seedArtifactFromRoot(p, Root)

\* SeedFromRoot in a working copy that is the root of its project
SeedBeginAtRoot(p) == seedArtifactFromRoot(p, p)

\* cache.go seedToCache line 829: MkdirAll(cachePath)
SeedMkdir(p) ==
    /\ At(p, "sd_mkdir")
    /\ cacheDir' = [cacheDir EXCEPT ![proc[p].key] = TRUE]
    /\ proc' = [proc EXCEPT ![p] = [@ EXCEPT !.pc = "sd_check"]]
    /\ UNCHANGED << call, artifact, xdev, keyFile, cmdOut, tree, cacheSub, lockFile,
                    lockHeld, inoCount, builds, entry, opsUsed >>

\* seedToCache lines 833-837: targetInCache already a directory
SeedCheck(p) ==
    /\ At(p, "sd_check")
    /\ proc' = [proc EXCEPT ![p] =
                  IF CacheChild(proc[p].key, PathBase(proc[p].i)).exists
                  THEN SeedNextPath(@)
                  ELSE [@ EXCEPT !.pc = "sd_walk"]]
    /\ UNCHANGED << call, artifact, xdev, keyFile, cmdOut, tree, cacheDir, cacheSub,
                    lockFile, lockHeld, inoCount, builds, entry, opsUsed >>

\* seedToCache line 839, SeedDirectory(rootArtifact, targetInCache): the walk
\* of root's tree and the creation of the destination directories
SeedWalk(p) ==
    /\ At(p, "sd_walk")
    /\ LET j == proc[p].i
           k == proc[p].key
           files == SeedFiles(tree[Root][j], artifact.Name)
       IN  /\ cacheDir' = [cacheDir EXCEPT ![k] = TRUE]
           /\ cacheSub' = [cacheSub EXCEPT ![k][PathBase(j)] =
                             IF CacheChild(k, PathBase(j)).exists THEN @ ELSE EmptyDir]
           /\ proc' = [proc EXCEPT ![p] =
                         IF files = << >> THEN SeedNextPath(@)
                         ELSE [@ EXCEPT !.pc = "sd_file", !.todo = files]]
    /\ UNCHANGED << call, artifact, xdev, keyFile, cmdOut, tree, lockFile, lockHeld,
                    inoCount, builds, entry, opsUsed >>

\* a worker that moves the file out of root instead of linking it
SeedFileMoving(p) ==
    /\ At(p, "sd_file")
    /\ \E n \in 1..Len(proc[p].todo) :
         LET j == proc[p].i
             k == proc[p].key
             f == proc[p].todo[n]
             rest == RemoveAt(proc[p].todo, n)
             dst == CacheChild(k, PathBase(j))
         IN  /\ dst.exists /\ f \in DOMAIN tree[Root][j].files
             /\ cacheSub' = [cacheSub EXCEPT ![k][PathBase(j)] =
                               linkOrCopyFile(dst, f, tree[Root][j].files[f],
                                              Root \in xdev, p)]
             /\ tree' = [tree EXCEPT ![Root][j].files =
                               [g \in DOMAIN @ \ {f} |-> @[g]]]
             /\ inoCount' = [inoCount EXCEPT ![p] =
                               IF CopiesInode(dst, f, Root \in xdev) THEN @ + 1 ELSE @]
             /\ proc' = [proc EXCEPT ![p] =
                           IF rest = << >> THEN SeedNextPath(@)
                           ELSE [@ EXCEPT !.todo = rest]]
    /\ UNCHANGED << call, artifact, xdev, keyFile, cmdOut, cacheDir, lockFile,
                    lockHeld, builds, entry, opsUsed >>

\* SeedDirectory lines 357-381: a worker links any file of the queue from
\* root into the cache, or copies it when root is on another device; a
\* source or a destination directory that is gone is the worker's error
SeedFile(p) ==
    /\ At(p, "sd_file")
    /\ \E n \in 1..Len(proc[p].todo) :
         LET j == proc[p].i
             k == proc[p].key
             f == proc[p].todo[n]
             rest == RemoveAt(proc[p].todo, n)
             dst == CacheChild(k, PathBase(j))
         IN  IF ~dst.exists \/ f \notin DOMAIN tree[Root][j].files
             THEN /\ proc' = [proc EXCEPT ![p] = Return(@, "err")]
                  /\ UNCHANGED << cacheSub, inoCount >>
             ELSE /\ cacheSub' = [cacheSub EXCEPT ![k][PathBase(j)] =
                                    linkOrCopyFile(dst, f, tree[Root][j].files[f],
                                                   Root \in xdev, p)]
                  /\ inoCount' = [inoCount EXCEPT ![p] =
                                    IF CopiesInode(dst, f, Root \in xdev) THEN @ + 1 ELSE @]
                  /\ proc' = [proc EXCEPT ![p] =
                                IF rest = << >> THEN SeedNextPath(@)
                                ELSE [@ EXCEPT !.todo = rest]]
    /\ UNCHANGED << call, artifact, xdev, keyFile, cmdOut, tree, cacheDir, lockFile,
                    lockHeld, builds, entry, opsUsed >>

\* ------------------------------------------------------------ specification

\* the steps of the cache operations
CacheStep ==
    \/ \E p \in Envs : Ack(p)
    \/ \E p \in Envs : PrepareArtifactCache(p)
    \/ \E p \in Envs : StoreMkdir(p)
    \/ \E p \in Envs : StoreRename(p)
    \/ \E p \in Envs : StoreLinkRoot(p)
    \/ \E p \in Envs : StoreLinkFile(p)
    \/ \E p \in Envs, hb \in BOOLEAN : SyncBegin(p, hb)
    \/ \E p \in Envs : SyncLock(p)
    \/ \E p \in Envs : SyncCheck(p)
    \/ \E p \in Envs : SyncMkdir(p)
    \/ \E p \in Envs : SyncRename(p)
    \/ \E p \in Envs : SyncLinkRoot(p)
    \/ \E p \in Envs : SyncLinkFile(p)
    \/ \E p \in Envs : SyncCopyRoot(p)
    \/ \E p \in Envs : SyncCopyFile(p)
    \/ \E p \in Envs : RestoreBegin(p)
    \/ \E p \in Envs : RestorePath(p)
    \/ \E p \in Envs : RestoreWalk(p)
    \/ \E p \in Envs : RestoreFile(p)
    \/ \E p \in Envs : SeedBegin(p)
    \/ \E p \in Envs : SeedMkdir(p)
    \/ \E p \in Envs : SeedCheck(p)
    \/ \E p \in Envs : SeedWalk(p)
    \/ \E p \in Envs : SeedFile(p)

Next ==
    \/ \E w \in Envs : UserBuildStart(w)
    \/ \E w \in Envs : UserBuildFinish(w)
    \/ CacheStep

Spec == Init /\ [][Next]_vars

\* ------------------------------------------ a holder that never goes on

\* the statements of a Sync of p that has begun
SyncStep(p) ==
    \/ SyncLock(p) \/ SyncCheck(p) \/ SyncMkdir(p) \/ SyncRename(p)
    \/ SyncLinkRoot(p) \/ SyncLinkFile(p) \/ SyncCopyRoot(p) \/ SyncCopyFile(p)

\* the process whose Sync keeps running; the other one may stop for ever at
\* any statement, the lock in its hands
Runner == "a"

\* the process of Runner is scheduled (its next statement is executed when it
\* can be), and a call that has returned is taken by its caller: a returned
\* call holds no lock and is no statement of cache.go
SpecWait ==
    /\ Init /\ [][Next]_vars
    /\ WF_vars(SyncStep(Runner))
    /\ \A p \in Envs : WF_vars(Ack(p))

\* ---------------------------------------------- an artifact with two paths

InitMulti == \E sc \in Scenarios : InitWith(AssetsArtifact, sc)

NextMulti ==
    \/ \E w \in Envs : UserBuildFinish(w)
    \/ CacheStep

SpecMulti == InitMulti /\ [][NextMulti]_vars

\* ----------------------------- an artifact with two paths of one basename

InitTwin == \E sc \in Scenarios : InitWith(TwinArtifact, sc)

SpecTwin == InitTwin /\ [][NextMulti]_vars

\* ------------------------------------------- two Stores of one key at once

\* what the build of working copy w has written to path j of artifact a
BuiltTree(a, w, j) ==
    LET out == BuildOutput(a)
        n == Len(out)
    IN  [exists |-> TRUE,
         files |-> [f \in {out[x] : x \in 1..n} |->
                      LET m == (j - 1) * n + (CHOOSE x \in 1..n : out[x] = f)
                      IN  [ino |-> <<w, m>>, data |-> <<w, m>>,
                           mtime |-> <<"write", <<w, m>>>>]]]

\* the artifact paths a working copy's init script may have built
BuiltPaths(a) == SUBSET (1..Len(a.Paths)) \ {{}}

\* mono init in two working copies with one key: each has prepared its entry
\* (a miss, the cache is empty) and run its init script, which has built
\* some of the artifact's paths; StoreToCache is what comes next
InitStores ==
    \E sc \in {SameDevice, OtherDevice}, has \in [Envs -> BuiltPaths(AssetsArtifact)] :
        /\ artifact = AssetsArtifact
        /\ xdev = sc.xdev /\ keyFile = sc.keyFile
        /\ cmdOut \in CmdOutputs
        /\ tree = [w \in WCs |-> [j \in 1..Len(AssetsArtifact.Paths) |->
                     IF w = Root THEN RootTree(AssetsArtifact)
                     ELSE IF j \in has[w] THEN BuiltTree(AssetsArtifact, w, j)
                     ELSE NoTree]]
        /\ inoCount = [w \in WCs |->
                         Len(AssetsArtifact.Paths) * Len(BuildOutput(AssetsArtifact))]
        /\ cacheDir = [k \in Keys |-> FALSE]
        /\ cacheSub = [k \in Keys |-> [c \in CacheChildren |-> NoTree]]
        /\ lockFile = [k \in Keys |-> FALSE]
        /\ lockHeld = [k \in Keys |-> None]
        /\ builds = 0
        /\ entry = [w \in Envs |->
                      IF KeyOf(w).err THEN NoEntry
                      ELSE [valid |-> TRUE, Key |-> KeyOf(w).key, Hit |-> FALSE]]
        /\ proc = [w \in Envs |-> [Idle EXCEPT !.origin = [how |-> "built", key |-> ""]]]
        /\ opsUsed = 0
        /\ call = NoCall

\* part_014 Init, lines 183-193: StoreToCache for the entry that missed
NextStores ==
    \/ \E p \in Envs : Ack(p)
    \/ \E p \in Envs : StoreMkdir(p)
    \/ \E p \in Envs : StoreRename(p)
    \/ \E p \in Envs : StoreLinkRoot(p)
    \/ \E p \in Envs : StoreLinkFile(p)

SpecStores == InitStores /\ [][NextStores]_vars

\* ------------------------------------- an artifact the detector has nested

\* web/package-lock.json: the artifact npm-web with the path web/node_modules
InitNested ==
    \E sc \in {SameDevice, OtherDevice} :
        InitWith(toArtifactConfig(NpmSpec, <<"web">>), sc)

SpecNested == InitNested /\ [][NextMulti]_vars

\* ------------------------------------------------- a link that fails

\* HardlinkTree line 179-186: os.Link returns an error that is neither EEXIST
\* nor a cross-device error (EMLINK, EPERM, ENOSPC, EIO): the walk stops
HardlinkTreeLinkFails(p) ==
    /\ At(p, "sy_hl_file") \/ At(p, "st_hl_file")
    /\ proc[p].todo # << >>
    /\ proc' = [proc EXCEPT ![p] = [@ EXCEPT !.pc = "hl_failed"]]
    /\ UNCHANGED << call, artifact, xdev, keyFile, cmdOut, tree, cacheDir, cacheSub,
                    lockFile, lockHeld, inoCount, builds, entry, opsUsed >>

NextFault ==
    \/ \E p \in Envs : HardlinkTreeLinkFails(p)
    \/ \E p \in Envs : StoreLinkFailed(p)
    \/ \E p \in Envs : SyncRecoverRename(p)
    \/ \E p \in Envs : SyncRecoverCleanup(p)
    \/ Next

SpecFault == Init /\ [][NextFault]_vars

\* ------------------------------------------- a lock that cannot be taken

\* the calls of acquireCacheLock that can fail: MkdirAll of the lock's
\* directory (622), OpenFile of the lock file (626), Flock (631)
LockFaults == {"mkdir", "open", "flock"}

\* cache.go acquireCacheLock lines 622-634 as moveToCache calls it (697-703),
\* when one of its calls fails.  MkdirAll or OpenFile: the error is returned
\* and moveToCache and syncArtifact return it.  Flock, for a reason that is
\* not a holder of the lock (EINTR, ENOLCK, EBADF; no process holds it): line
\* 631 tests only err != nil, so the file is closed, nil, nil is returned and
\* moveToCache returns nil
acquireCacheLockFails(p, fault) ==
    /\ At(p, "sy_lock")
    /\ LET k == proc[p].key
       IN  IF fault = "flock"
           THEN /\ lockHeld[k] = None
                /\ lockFile' = [lockFile EXCEPT ![k] = TRUE]
                /\ proc' = [proc EXCEPT ![p] = SyncNextPath(@, p)]
           ELSE /\ UNCHANGED lockFile
                /\ proc' = [proc EXCEPT ![p] = Return(@, "err")]
    /\ UNCHANGED << call, artifact, xdev, keyFile, cmdOut, tree, cacheDir, cacheSub,
                    lockHeld, inoCount, builds, entry, opsUsed >>

\* moveToCache lines 712-714: MkdirAll(cachePath) fails; the error is
\* returned and the deferred releaseCacheLock (704) runs
SyncMkdirFails(p) ==
    /\ At(p, "sy_mkdir")
    /\ lockHeld' = releaseCacheLock(p, proc[p].key)
    /\ proc' = [proc EXCEPT ![p] = Return(@, "err")]
    /\ UNCHANGED << call, artifact, xdev, keyFile, cmdOut, tree, cacheDir, cacheSub,
                    lockFile, inoCount, builds, entry, opsUsed >>

NextLock ==
    \/ \E p \in Envs, fault \in LockFaults : acquireCacheLockFails(p, fault)
    \/ \E p \in Envs : SyncMkdirFails(p)
    \/ NextFault

\* the projects the lock is examined with: two working copies with one key,
\* on the device of the cache (rename) and on another device (copy)
LockConfigurations ==
    { [artifact |-> toArtifactConfig(CargoSpec, <<>>), sc |-> SameDevice],
      [artifact |-> toArtifactConfig(NpmSpec, <<>>), sc |-> OtherDevice] }

InitLock == \E c \in LockConfigurations : InitWith(c.artifact, c.sc)

SpecLock == InitLock /\ [][NextLock]_vars

\* ------------------------------------------------------ mono cache clean

\* another command has run: no running operation is alone any more
Disturbed == [q \in Envs |-> [proc[q] EXCEPT !.solo = (proc[q].pc = "idle")]]

\* cache.go RemoveCacheEntry(project, artifact, key) for an entry that
\* GetCacheSizes lists (a directory <key>): RemoveAll(<key>).  The lock file
\* <key>.lock is a sibling of <key> and stays; cleanEmptyParentDirs removes
\* <artifact> only when nothing, no lock file either, is left in it
RemoveCacheEntry(k) ==
    /\ NoReturnPending
    /\ opsUsed < MaxOps
    /\ cacheDir[k]
    /\ opsUsed' = opsUsed + 1
    /\ cacheDir' = [cacheDir EXCEPT ![k] = FALSE]
    /\ cacheSub' = [cacheSub EXCEPT ![k] = [c \in DOMAIN @ |-> NoTree]]
    /\ proc' = Disturbed
    /\ UNCHANGED << call, artifact, xdev, keyFile, cmdOut, tree, lockFile, lockHeld,
                    inoCount, builds, entry >>

\* cache.go RemoveAllCache as mono cache clean --all calls it (when
\* GetCacheSizes lists an entry): RemoveAll(<home>/cache_local), and with it
\* every entry and every lock file.  A flock that a process holds is on the
\* file it opened: once that file is unlinked the lock excludes no process
\* that opens <key>.lock anew
RemoveAllCache ==
    /\ NoReturnPending
    /\ opsUsed < MaxOps
    /\ \E k \in DOMAIN cacheDir : cacheDir[k]
    /\ opsUsed' = opsUsed + 1
    /\ cacheDir' = [k \in DOMAIN cacheDir |-> FALSE]
    /\ cacheSub' = [k \in DOMAIN cacheSub |-> [c \in DOMAIN cacheSub[k] |-> NoTree]]
    /\ lockFile' = [k \in DOMAIN lockFile |-> FALSE]
    /\ lockHeld' = [k \in DOMAIN lockHeld |-> None]
    /\ proc' = Disturbed
    /\ UNCHANGED << call, artifact, xdev, keyFile, cmdOut, tree, inoCount, builds,
                    entry >>

NextRemove ==
    \/ \E k \in DOMAIN cacheDir : RemoveCacheEntry(k)
    \/ RemoveAllCache
    \/ Next

SpecRemove == InitLock /\ [][NextRemove]_vars

\* ------------------------------------- seeding from a root that is in use

\* a cargo build starts in root
RootBuildStart ==
    /\ NoReturnPending
    /\ IsCargoKind(artifact)
    /\ builds < MaxBuilds
    /\ CargoLockMarker \notin DOMAIN tree[Root][1].files
    /\ builds' = builds + 1
    /\ tree' = [tree EXCEPT ![Root][1] =
                  [exists |-> TRUE,
                   files |-> (CargoLockMarker :> FreshFile(Root, 1)) @@ tree[Root][1].files]]
    /\ inoCount' = [inoCount EXCEPT ![Root] = @ + 1]
    /\ UNCHANGED << call, artifact, xdev, keyFile, cmdOut, cacheDir, cacheSub, lockFile,
                    lockHeld, entry, proc, opsUsed >>

\* the build (for the other kinds, the install) in root finishes
RootBuildFinish ==
    /\ NoReturnPending
    /\ IF IsCargoKind(artifact)
       THEN /\ CargoLockMarker \in DOMAIN tree[Root][1].files
            /\ UNCHANGED builds
       ELSE /\ builds < MaxBuilds
            /\ builds' = builds + 1
    /\ LET out == BuildOutput(artifact)
           n == Len(out)
       IN  /\ tree' = [tree EXCEPT ![Root] =
                  [j \in 1..NPaths |->
                     [exists |-> TRUE,
                      files |-> [f \in {out[x] : x \in 1..n} |->
                         FreshFile(Root, (j - 1) * n +
                                         (CHOOSE x \in 1..n : out[x] = f))]]]]
           /\ inoCount' = [inoCount EXCEPT ![Root] = @ + NPaths * n]
    /\ UNCHANGED << call, artifact, xdev, keyFile, cmdOut, cacheDir, cacheSub, lockFile,
                    lockHeld, entry, proc, opsUsed >>

\* SeedDirectory lines 368-373: linkOrCopyFile returns an error (os.Link fails
\* with neither EEXIST nor a cross-device error, or the copy fails); the
\* pool stops and SeedDirectory, seedToCache and SeedFromRoot return it
SeedLinkFails(p) ==
    /\ At(p, "sd_file")
    /\ proc[p].todo # << >>
    /\ proc' = [proc EXCEPT ![p] = Return(@, "err")]
    /\ UNCHANGED << call, artifact, xdev, keyFile, cmdOut, tree, cacheDir, cacheSub,
                    lockFile, lockHeld, inoCount, builds, entry, opsUsed >>

\* root is on another device than the cache
RootOtherDevice == [xdev |-> {Root}, keyFile |-> [w \in WCs |-> "L1"]]

\* the projects seeding runs with: an artifact, a scenario, whether root has
\* been built, and what the key command prints
SeedConfigurations ==
    { [artifact |-> toArtifactConfig(spec, <<>>), sc |-> sc, rootBuilt |-> rb,
       cmdOut |-> out] :
        spec \in {CargoSpec, NpmSpec},
        sc \in {SameDevice, OtherLockfile, RootOtherDevice},
        rb \in BOOLEAN,
        out \in CmdOutputs \cup {CmdFail} }

InitSeed ==
    \E c \in SeedConfigurations :
        /\ artifact = c.artifact
        /\ xdev = c.sc.xdev /\ keyFile = c.sc.keyFile
        /\ cmdOut = c.cmdOut
        /\ tree = [w \in WCs |-> [j \in 1..Len(c.artifact.Paths) |->
                     IF w = Root /\ c.rootBuilt THEN RootTree(c.artifact) ELSE NoTree]]
        /\ inoCount = [w \in WCs |-> IF w = Root THEN Len(BuildOutput(c.artifact)) ELSE 0]
        /\ InitFS

NextSeed ==
    \/ RootBuildStart
    \/ RootBuildFinish
    \/ \E p \in Envs : Ack(p)
    \/ \E p \in Envs : PrepareArtifactCache(p)
    \/ \E p \in Envs : SeedBegin(p)
    \/ \E p \in Envs : SeedBeginAtRoot(p)
    \/ \E p \in Envs : SeedMkdir(p)
    \/ \E p \in Envs : SeedCheck(p)
    \/ \E p \in Envs : SeedWalk(p)
    \/ \E p \in Envs : SeedFile(p)
    \/ \E p \in Envs : SeedLinkFails(p)

SpecSeed == InitSeed /\ [][NextSeed]_vars

\* ------------------------------------------- a key command that fails

\* from now on the key command exits nonzero or cannot be executed (cache.go
\* ComputeCacheKey lines 93-96: exec.Command("bash", "-c", cmd).Output()
\* returns an error), as when the toolchain it asks is removed
KeyCommandBreaks ==
    /\ cmdOut # CmdFail
    /\ cmdOut' = CmdFail
    /\ UNCHANGED << call, artifact, xdev, keyFile, tree, cacheDir, cacheSub, lockFile,
                    lockHeld, inoCount, builds, entry, proc, opsUsed >>

\* the builds and the operations that compute a key, with their statements
NextKeys ==
    \/ KeyCommandBreaks
    \/ \E w \in Envs : UserBuildStart(w)
    \/ \E w \in Envs : UserBuildFinish(w)
    \/ \E p \in Envs : Ack(p)
    \/ \E p \in Envs : PrepareArtifactCache(p)
    \/ \E p \in Envs, hb \in BOOLEAN : SyncBegin(p, hb)
    \/ \E p \in Envs : SyncStep(p)
    \/ \E p \in Envs : SeedBegin(p)
    \/ \E p \in Envs : SeedBeginAtRoot(p)
    \/ \E p \in Envs : SeedMkdir(p)
    \/ \E p \in Envs : SeedCheck(p)
    \/ \E p \in Envs : SeedWalk(p)
    \/ \E p \in Envs : SeedFile(p)

\* the key command works or fails from the start
InitKeys ==
    \E c \in LockConfigurations :
        /\ artifact = c.artifact
        /\ xdev = c.sc.xdev /\ keyFile = c.sc.keyFile
        /\ cmdOut \in CmdOutputs \cup {CmdFail}
        /\ tree = [w \in WCs |-> [j \in 1..Len(c.artifact.Paths) |->
                     IF w = Root THEN RootTree(c.artifact) ELSE NoTree]]
        /\ inoCount = [w \in WCs |-> IF w = Root THEN Len(BuildOutput(c.artifact)) ELSE 0]
        /\ InitFS

SpecKeys == InitKeys /\ [][NextKeys]_vars

\* ------------------------------------- functions of their arguments alone

\* key files and key commands an artifact has at most
MaxKeyInputs == 2

KeyFileNames == << <<"f1">>, <<"f2">>, <<"f3">> >>
KeyCommandNames == << "c1", "c2", "c3" >>
ArtifactNames == {"cargo", "npm"}
Locations == { <<"w", "a">>, <<"w", "b">> }

\* what a key file that exists holds or does, and what a key command prints
FileContents == {"", "a", "ab", ReadFail}
Outputs == {"", "b", CmdFail}

\* filepath.Join
Join(dir, rel) == dir \o rel

\* os.Open(filepath.Join(envPath, keyFile)) for every key file; disk: [full
\* path of an existing file -> FileContents]
OpenKeyFiles(a, envPath, disk) ==
    [f \in {a.KeyFiles[i] : i \in 1..Len(a.KeyFiles)} |->
        IF Join(envPath, f) \in DOMAIN disk THEN disk[Join(envPath, f)] ELSE NoFile]

\* cache.go ComputeCacheKey(artifact, envPath) on a disk
ComputeCacheKeyAt(a, envPath, disk, run) ==
    ComputeCacheKeyIn(a, OpenKeyFiles(a, envPath, disk), run)

\* the artifacts the key is computed for: nf key files, nc key commands
KeyArtifact(name, nf, nc) ==
    [ Name        |-> name,
      KeyFiles    |-> SubSeq(KeyFileNames, 1, nf),
      KeyCommands |-> SubSeq(KeyCommandNames, 1, nc),
      Paths       |-> << <<"out">> >> ]

\* the disks with some of the first nf key files under env, and what the
\* first nc key commands may print
DisksOf(env, nf) ==
    UNION { [ { Join(env, KeyFileNames[i]) : i \in present } -> FileContents ] :
              present \in SUBSET (1..nf) }

RunsOf(nc) == [ { KeyCommandNames[i] : i \in 1..nc } -> Outputs ]

\* the calls of ComputeCacheKey: an artifact, a working copy, the key files
\* it has, and what the key commands print
KeyCallsFor(name, nf, nc, env) ==
    { [fn |-> "ComputeCacheKey",
       in |-> [artifact |-> KeyArtifact(name, nf, nc), envPath |-> env,
               disk |-> disk, run |-> run],
       out |-> Pending] :
        disk \in DisksOf(env, nf), run \in RunsOf(nc) }

KeyCallsOf(names) ==
    UNION { KeyCallsFor(name, nf, nc, env) :
              name \in names, nf \in 0..MaxKeyInputs,
              nc \in 0..MaxKeyInputs, env \in Locations }

\* the state the functions are applied in: a project at rest
InitQuiet ==
    /\ artifact = toArtifactConfig(CargoSpec, <<>>)
    /\ xdev = {} /\ keyFile = SameDevice.keyFile
    /\ cmdOut = "v1"
    /\ tree = [w \in WCs |-> [j \in 1..Len(artifact.Paths) |-> NoTree]]
    /\ inoCount = [w \in WCs |-> 0]
    /\ InitDisk

\* ComputeCacheKey returns
ComputeCacheKeyReturns ==
    /\ call.fn = "ComputeCacheKey" /\ call.out = Pending
    /\ call' = [call EXCEPT !.out =
                   << ComputeCacheKeyAt(call.in.artifact, call.in.envPath,
                                        call.in.disk, call.in.run) >>]
    /\ UNCHANGED << artifact, xdev, keyFile, cmdOut, tree, cacheDir, cacheSub,
                    lockFile, lockHeld, inoCount, builds, entry, proc, opsUsed >>

\* cache.go GetProjectName: filepath.Base(rootPath)
GetProjectName(rootPath) == Base(rootPath)

\* <home>/.mono/cache_local (NewCacheManager)
LocalCacheDir == <<"home", ".mono", "cache_local">>

\* cache.go GetProjectCacheDir
GetProjectCacheDir(rootPath) == Join(LocalCacheDir, <<GetProjectName(rootPath)>>)

\* cache.go GetArtifactCachePath
GetArtifactCachePath(rootPath, artifactName, key) ==
    Join(GetProjectCacheDir(rootPath), <<artifactName, key>>)

\* the roots of projects: two of them have the same last component
RootPaths == { <<"Users", "x", "project1">>, <<"Users", "x", "project2">>,
               <<"Users", "y", "project1">> }

\* the calls of GetArtifactCachePath
PathCalls ==
    { [fn |-> "GetArtifactCachePath",
       in |-> [rootPath |-> root, artifactName |-> name, key |-> key],
       out |-> Pending] :
        root \in RootPaths, name \in ArtifactNames,
        key \in {Digest16("a"), Digest16("b")} }

GetArtifactCachePathReturns ==
    /\ call.fn = "GetArtifactCachePath" /\ call.out = Pending
    /\ call' = [call EXCEPT !.out =
                   << GetArtifactCachePath(call.in.rootPath, call.in.artifactName,
                                           call.in.key) >>]
    /\ UNCHANGED << artifact, xdev, keyFile, cmdOut, tree, cacheDir, cacheSub,
                    lockFile, lockHeld, inoCount, builds, entry, proc, opsUsed >>

\* artifacts a project has at most
MaxArtifacts == 2

\* the artifacts Prepare is called with
PrepareArtifacts ==
    { [ Name |-> "cargo", KeyFiles |-> << <<"f1">> >>, KeyCommands |-> << "c1" >>,
        Paths |-> << <<"target">> >> ],
      [ Name |-> "npm", KeyFiles |-> << <<"f2">> >>, KeyCommands |-> << "c1" >>,
        Paths |-> << <<"web", "node_modules">> >> ],
      [ Name |-> "assets", KeyFiles |-> << <<"f1">>, <<"f2">> >>, KeyCommands |-> << >>,
        Paths |-> << <<"out">>, <<"gen">> >> ] }

\* entries = append(entries, e), at the wrong end
PrependEntry(entries, e) == << e >> \o entries

\* cache.go PrepareArtifactCache line 125: entries = append(entries, ...)
AppendEntry(entries, e) == Append(entries, e)

\* cache.go PrepareArtifactCache(artifacts, rootPath, envPath), the loop over
\* the artifacts with the entries made so far: [err, entries].  dirs: the
\* paths that are directories (dirExists)
RECURSIVE PrepareLoop(_, _, _, _, _, _, _)
PrepareLoop(artifacts, rootPath, envPath, disk, run, dirs, entries) ==
    IF artifacts = << >> THEN [err |-> FALSE, entries |-> entries]
    ELSE LET a == Head(artifacts)
             k == ComputeCacheKeyAt(a, envPath, disk, run)
             cachePath == GetArtifactCachePath(rootPath, a.Name, k.key)
         IN  IF k.err THEN [err |-> TRUE, entries |-> << >>]
             ELSE PrepareLoop(Tail(artifacts), rootPath, envPath, disk, run, dirs,
                      AppendEntry(entries,
                          [ Name      |-> a.Name,
                            Key       |-> k.key,
                            CachePath |-> cachePath,
                            EnvPaths  |-> [j \in 1..Len(a.Paths) |->
                                             Join(envPath, a.Paths[j])],
                            Hit       |-> cachePath \in dirs ]))

\* the cache paths the artifacts of a list can have on a disk
CachePathsOf(artifacts, rootPath, envPath, disk, run) ==
    { GetArtifactCachePath(rootPath, artifacts[i].Name,
                           ComputeCacheKeyAt(artifacts[i], envPath, disk, run).key) :
        i \in 1..Len(artifacts) }

\* the calls of PrepareArtifactCache: up to MaxArtifacts artifacts, the key
\* files of the working copy, what the key command prints, and the cache
\* paths that are directories
PrepareCallsFor(artifacts, env, disk, run) ==
    { [fn |-> "PrepareArtifactCache",
       in |-> [artifacts |-> artifacts, rootPath |-> <<"Users", "x", "project1">>,
               envPath |-> env, disk |-> disk, run |-> run, dirs |-> dirs],
       out |-> Pending] :
        dirs \in SUBSET CachePathsOf(artifacts, <<"Users", "x", "project1">>, env,
                                     disk, run) }

PrepareCallsOf(configured) ==
    UNION { PrepareCallsFor(artifacts, env, disk, run) :
              artifacts \in UNION { [1..n -> configured] : n \in 0..MaxArtifacts },
              env \in Locations, disk \in DisksOf(<<"w", "a">>, 2) \cup DisksOf(<<"w", "b">>, 2),
              run \in RunsOf(1) }

PrepareArtifactCacheReturns ==
    /\ call.fn = "PrepareArtifactCache" /\ call.out = Pending
    /\ call' = [call EXCEPT !.out =
                   << PrepareLoop(call.in.artifacts, call.in.rootPath, call.in.envPath,
                                  call.in.disk, call.in.run, call.in.dirs, << >>) >>]
    /\ UNCHANGED << artifact, xdev, keyFile, cmdOut, tree, cacheDir, cacheSub,
                    lockFile, lockHeld, inoCount, builds, entry, proc, opsUsed >>

\* what a call of PrepareArtifactCache gives the init flow: an error, or for
\* each of the n artifacts whether its entry is a hit
PrepareResults(n) ==
    { [err |-> TRUE, hits |-> << >>] } \cup
    { [err |-> FALSE, hits |-> h] : h \in [1..n -> BOOLEAN] }

\* part_014 Init lines 83-149: n artifacts are configured, CONDUCTOR_ROOT_PATH
\* is set or not; cacheEntries stays nil when the first Prepare fails; after a
\* miss SeedFromRoot runs (its error is logged) and the second Prepare
\* replaces cacheEntries unless it fails; a hit whose RestoreFromCache fails
\* becomes a miss; allHit is true if no entry of cacheEntries is a miss
InitFlow(in) ==
    LET prepared == in.n > 0 /\ in.rootSet
        first    == IF prepared /\ ~in.prepare1.err THEN in.prepare1.hits ELSE << >>
        hasMiss  == \E i \in 1..Len(first) : ~first[i]
        second   == IF hasMiss /\ ~in.prepare2.err THEN in.prepare2.hits ELSE first
        cacheEntries == [i \in 1..Len(second) |-> second[i] /\ in.restoreOk[i]]
    IN  [ allHit  |-> \A i \in 1..Len(cacheEntries) : cacheEntries[i],
          entries |-> cacheEntries,
          seeded  |-> hasMiss ]

\* the runs of the init flow
InitFlowCallsFor(n) ==
    { [fn |-> "Init",
       in |-> [n |-> n, rootSet |-> rootSet, prepare1 |-> p1, prepare2 |-> p2,
               seedErr |-> seedErr, restoreOk |-> r],
       out |-> Pending] :
        rootSet \in BOOLEAN, p1 \in PrepareResults(n), p2 \in PrepareResults(n),
        seedErr \in BOOLEAN, r \in [1..n -> BOOLEAN] }

InitFlowCalls == UNION { InitFlowCallsFor(n) : n \in 0..MaxArtifacts }

InitFlowReturns ==
    /\ call.fn = "Init" /\ call.out = Pending
    /\ call' = [call EXCEPT !.out = << InitFlow(call.in) >>]
    /\ UNCHANGED << artifact, xdev, keyFile, cmdOut, tree, cacheDir, cacheSub,
                    lockFile, lockHeld, inoCount, builds, entry, proc, opsUsed >>

\* BuildConfig.Sccache (*bool): nil, or a pointer to true or to false
SccacheOverrides == {"nil", "true", "false"}

\* a test that takes no account of the override
sccacheIfAvailable(cfg, SccacheAvailable) == SccacheAvailable

\* cache.go shouldEnableSccache(cfg); SccacheAvailable: NewCacheManager has
\* found sccache on PATH (detectSccache, exec.LookPath)
shouldEnableSccache(cfg, SccacheAvailable) ==
    IF cfg.Sccache # "nil"
    THEN cfg.Sccache = "true" /\ SccacheAvailable
    ELSE SccacheAvailable

\* cache.go EnvVars(cfg)
EnvVars(cfg, SccacheAvailable) ==
    IF shouldEnableSccache(cfg, SccacheAvailable) THEN << "RUSTC_WRAPPER=sccache" >>
    ELSE << >>

EnvVarsCalls ==
    { [fn |-> "EnvVars", in |-> [cfg |-> [Sccache |-> o], SccacheAvailable |-> onPath],
       out |-> Pending] : o \in SccacheOverrides, onPath \in BOOLEAN }

EnvVarsReturns ==
    /\ call.fn = "EnvVars" /\ call.out = Pending
    /\ call' = [call EXCEPT !.out = << EnvVars(call.in.cfg, call.in.SccacheAvailable) >>]
    /\ UNCHANGED << artifact, xdev, keyFile, cmdOut, tree, cacheDir, cacheSub,
                    lockFile, lockHeld, inoCount, builds, entry, proc, opsUsed >>

\* the calls that are examined
CallsOf(names, configured) ==
    KeyCallsOf(names) \cup PathCalls \cup PrepareCallsOf(configured) \cup InitFlowCalls
        \cup EnvVarsCalls

InitCalls ==
    \/ InitSeed
    \/ \E c \in CallsOf(ArtifactNames, PrepareArtifacts) : call = c /\ InitQuiet

\* a function is applied in a project at rest; else the operations run
NextCalls ==
    \/ ComputeCacheKeyReturns
    \/ GetArtifactCachePathReturns
    \/ PrepareArtifactCacheReturns
    \/ InitFlowReturns
    \/ EnvVarsReturns
    \/ call = NoCall /\ NextSeed

SpecCalls == InitCalls /\ [][NextCalls]_vars

\* ------------------------------------------ removal of one cache entry

\* the directory tree below <home>/cache_local: dirs, the paths that are
\* directories; files, [path of a file -> its bytes]

\* path q is path or lies below it
Under(path, q) == Len(q) >= Len(path) /\ SubSeq(q, 1, Len(path)) = path

\* os.RemoveAll(path)
RemoveAll(fs, path) ==
    [dirs  |-> { d \in fs.dirs : ~Under(path, d) },
     files |-> [f \in { g \in DOMAIN fs.files : ~Under(path, g) } |-> fs.files[f]]]

\* os.ReadDir(path): the names in the directory path
ReadDir(fs, path) ==
    { q \in fs.dirs \cup DOMAIN fs.files : Len(q) = Len(path) + 1 /\ Under(path, q) }

\* a removal that prunes the parents although names are left in them
cleanParentDirsAlways(fs, path) == RemoveAll(fs, path)

\* cache.go cleanEmptyParentDirs(path): a path that cannot be read is left,
\* a directory with no name in it is removed (os.Remove)
cleanEmptyParentDirs(fs, path) ==
    IF path \in fs.dirs /\ ReadDir(fs, path) = {}
    THEN [fs EXCEPT !.dirs = @ \ {path}]
    ELSE fs

\* cache.go RemoveCacheEntry(projectName, artifact, cacheKey) on the tree fs
RemoveCacheEntryIn(fs, projectName, artifactName, cacheKey) ==
    LET path == Join(LocalCacheDir, <<projectName, artifactName, cacheKey>>)
        removed == RemoveAll(fs, path)
        pruned == cleanEmptyParentDirs(removed, Join(LocalCacheDir, <<projectName, artifactName>>))
    IN  cleanEmptyParentDirs(pruned, Join(LocalCacheDir, <<projectName>>))

\* cache.go calculateDirSize(path): the sum of the sizes of the files below path
RECURSIVE SumSizes(_, _)
SumSizes(fs, names) ==
    IF names = {} THEN 0
    ELSE LET f == CHOOSE g \in names : TRUE
         IN  Len(fs.files[f]) + SumSizes(fs, names \ {f})

calculateDirSize(fs, path) ==
    SumSizes(fs, { f \in DOMAIN fs.files : Under(path, f) })

\* cache.go GetCacheSizes: an entry for every directory <project>/<artifact>/<key>
\* below LocalCacheDir, files at these levels (the lock files) are passed
\* over; the entries as a set, without the order of ReadDir
GetCacheSizes(fs) ==
    IF LocalCacheDir \notin fs.dirs THEN {}
    ELSE { [ProjectName |-> d[Len(LocalCacheDir) + 1],
            Artifact    |-> d[Len(LocalCacheDir) + 2],
            CacheKey    |-> d[Len(LocalCacheDir) + 3],
            Size        |-> calculateDirSize(fs, d)] :
              d \in { e \in fs.dirs : /\ Len(e) = Len(LocalCacheDir) + 3
                                      /\ Under(LocalCacheDir, e)
                                      /\ SubSeq(e, 1, Len(e) - 1) \in fs.dirs
                                      /\ SubSeq(e, 1, Len(e) - 2) \in fs.dirs } }

\* entries a cache has at most
MaxEntries == 3

CleanProjects == {"project1", "project2"}
CleanKeys == {"k1", "k2"}

\* project, artifact and key of the entries there can be
Triples == { <<project, name, key>> :
               project \in CleanProjects, name \in ArtifactNames, key \in CleanKeys }

\* what Store leaves at an entry t: the directory, and unless the entry is
\* empty the tree target with a file of the entry's own bytes
EntryDirs(t, empty) ==
    { SubSeq(Join(LocalCacheDir, t), 1, n) : n \in Len(LocalCacheDir)..Len(LocalCacheDir) + 3 }
    \cup (IF empty THEN {} ELSE { Join(LocalCacheDir, t \o <<"target">>) })

EntryFile(t) == Join(LocalCacheDir, t \o <<"target", "lib">>)

\* <key>.lock, which Sync leaves beside the entry
LockPath(t) == Join(LocalCacheDir, <<t[1], t[2], t[3] \o ".lock">>)

\* the cache with the entries full and empty and the lock files of locks
CacheTree(full, empty, locks) ==
    [dirs  |-> {LocalCacheDir} \cup UNION { EntryDirs(t, FALSE) : t \in full }
                               \cup UNION { EntryDirs(t, TRUE) : t \in empty },
     files |-> [f \in { EntryFile(t) : t \in full } \cup { LockPath(t) : t \in locks } |->
                  IF \E t \in full : f = EntryFile(t) THEN f[5] \o f[6] ELSE ""]]

\* the calls of RemoveCacheEntry: up to MaxEntries entries, one of them
\* perhaps empty, lock files in the directory of the artifact, and the entry
\* that is removed
RemoveCallsFor(entries, target) ==
    { [fn |-> "RemoveCacheEntry",
       in |-> [fs |-> CacheTree(entries \ empty, empty, locks),
               projectName |-> target[1], artifact |-> target[2], cacheKey |-> target[3]],
       out |-> Pending] :
        empty \in { e \in SUBSET entries : Cardinality(e) <= 1 },
        locks \in SUBSET { t \in entries \cup {target} : t[1] = target[1] /\ t[2] = target[2] } }

RemoveCallsOf(triples) ==
    UNION { RemoveCallsFor(entries, target) :
              entries \in { e \in SUBSET triples : Cardinality(e) <= MaxEntries },
              target \in triples }

\* RemoveCacheEntry returns; mono cache clean then lists the cache again
RemoveCacheEntryReturns ==
    /\ call.fn = "RemoveCacheEntry" /\ call.out = Pending
    /\ LET after == RemoveCacheEntryIn(call.in.fs, call.in.projectName,
                                       call.in.artifact, call.in.cacheKey)
       IN  call' = [call EXCEPT !.out = << [fs |-> after, listed |-> GetCacheSizes(after)] >>]
    /\ UNCHANGED << artifact, xdev, keyFile, cmdOut, tree, cacheDir, cacheSub,
                    lockFile, lockHeld, inoCount, builds, entry, proc, opsUsed >>

InitClean == \E c \in RemoveCallsOf(Triples) : call = c /\ InitQuiet

SpecClean == InitClean /\ [][RemoveCacheEntryReturns]_vars

\* --------------------------------------------------- artifact detection

\* config.go lockFileSpecs, in the order of the source
YarnSpec == [filename |-> "yarn.lock", artifactDir |-> "node_modules",
             keyCommand |-> "node --version", baseType |-> "yarn"]
PnpmSpec == [filename |-> "pnpm-lock.yaml", artifactDir |-> "node_modules",
             keyCommand |-> "node --version", baseType |-> "pnpm"]
BunSpec == [filename |-> "bun.lock", artifactDir |-> "node_modules",
            keyCommand |-> "bun --version", baseType |-> "bun"]
BunbSpec == [filename |-> "bun.lockb", artifactDir |-> "node_modules",
             keyCommand |-> "bun --version", baseType |-> "bun"]

lockFileSpecs == << CargoSpec, NpmSpec, YarnSpec, PnpmSpec, BunSpec, BunbSpec >>

\* config.go skipDirs
skipDirs == {"node_modules", "target", ".git", "vendor", "dist", "build", ".next", ".nuxt"}

\* the names of the model's files and directories in the order of their bytes
NameOrder ==
    << "Cargo.lock", "Web", "a", "a-b", "a.b", "b", "build", "bun.lock", "bun.lockb",
       "node_modules", "package-lock.json", "vendor", "work" >>

\* the names of a directory as the disk gives them, in no order
UnsortedNames(listing) == listing

\* os.ReadDir as filepath.WalkDir calls it: the names sorted
SortedNames(listing) ==
    SelectSeq(NameOrder, LAMBDA n : \E i \in 1..Len(listing) : listing[i] = n)

\* the dir part of a relative path (filepath.Dir; << >> is ".")
Dir(relPath) == SubSeq(relPath, 1, Len(relPath) - 1)

\* specMap[name]: the specs with that file name
SpecsNamed(name) ==
    { lockFileSpecs[i] : i \in { j \in 1..Len(lockFileSpecs) : lockFileSpecs[j].filename = name } }

\* config.go findLockFiles, the function given to filepath.WalkDir: the visit
\* of the entry at rel (<< >> is envPath itself), whose d.Name() is name.  A
\* directory of a skiplisted name is not entered (SkipDir), a file of a lock
\* file name is appended to found
RECURSIVE WalkDirEntry(_, _, _, _)
RECURSIVE WalkDirChildren(_, _, _, _)
WalkDirEntry(fs, name, rel, listing) ==
    IF rel \in fs.dirs
    THEN IF name \in skipDirs THEN << >>
         ELSE WalkDirChildren(fs, rel, SortedNames(listing), listing)
    ELSE IF SpecsNamed(name) # {}
         THEN << [relPath |-> rel, spec |-> CHOOSE sp \in SpecsNamed(name) : TRUE] >>
         ELSE << >>

WalkDirChildren(fs, rel, names, listing) ==
    IF names = << >> THEN << >>
    ELSE LET child == rel \o << Head(names) >>
         IN  (IF child \in fs.dirs \cup fs.files
              THEN WalkDirEntry(fs, Head(names), child, listing) ELSE << >>)
             \o WalkDirChildren(fs, rel, Tail(names), listing)

\* filepath.WalkDir(envPath, ...): the first entry is envPath, under its own
\* name
findLockFiles(fs, envPath, listing) == WalkDirEntry(fs, Base(envPath), << >>, listing)

\* config.go detectArtifacts lines 102-110: the loop over the lock files
\* found, with the names seen and the artifacts so far
RECURSIVE detectLoop(_, _, _)
detectLoop(lockFiles, seen, artifacts) ==
    IF lockFiles = << >> THEN artifacts
    ELSE LET cfg == toArtifactConfig(Head(lockFiles).spec, Dir(Head(lockFiles).relPath))
         IN  IF cfg.Name \in seen
             THEN detectLoop(Tail(lockFiles), seen, artifacts)
             ELSE detectLoop(Tail(lockFiles), seen \cup {cfg.Name}, Append(artifacts, cfg))

\* config.go detectArtifacts(envPath) in the working copy fs
detectArtifacts(fs, envPath, listing) ==
    detectLoop(findLockFiles(fs, envPath, listing), {}, << >>)

\* lock files a working copy has at most
MaxLockFiles == 3

\* where the lock files of the model are, and which
LockFileDirs ==
    { << >>, <<"a">>, <<"a", "b">>, <<"a-b">>, <<"a.b">>, <<"Web", "a.b">>,
      <<"vendor">>, <<"a", "node_modules">> }

LockFileNames == {"Cargo.lock", "package-lock.json", "bun.lock", "bun.lockb"}

\* the working copy that holds the lock files of files, and their directories
WorkingCopy(files) ==
    [dirs  |-> { << >> } \cup UNION { { SubSeq(f, 1, n) : n \in 0..Len(f) - 1 } : f \in files },
     files |-> files]

\* the working copies that are scanned: one under a name of its own, one
\* whose directory has the name of a build directory
EnvPaths == { <<"work", "a">>, <<"work", "build">> }

\* the orders in which a disk lists a directory
Listings == { NameOrder, [i \in 1..Len(NameOrder) |-> NameOrder[Len(NameOrder) + 1 - i]] }

\* the sets of at most n elements of S
RECURSIVE UpTo(_, _)
UpTo(S, n) ==
    IF n = 0 THEN { {} }
    ELSE UpTo(S, n - 1) \cup { T \cup {x} : T \in UpTo(S, n - 1), x \in S }

DetectCallsOf(dirs) ==
    { [fn |-> "detectArtifacts",
       in |-> [fs |-> WorkingCopy(files), envPath |-> env],
       out |-> Pending] :
        files \in UpTo({ d \o <<n>> : d \in dirs, n \in LockFileNames }, MaxLockFiles),
        env \in EnvPaths }

\* the working copy is scanned, and scanned once more; the disk lists its
\* directories in some order each time
detectArtifactsReturns ==
    /\ call.fn = "detectArtifacts" /\ Len(call.out) < 2
    /\ \E listing \in Listings :
          call' = [call EXCEPT !.out =
                      Append(@, [found |-> findLockFiles(call.in.fs, call.in.envPath, listing),
                                 artifacts |-> detectArtifacts(call.in.fs, call.in.envPath,
                                                               listing)])]
    /\ UNCHANGED << artifact, xdev, keyFile, cmdOut, tree, cacheDir, cacheSub,
                    lockFile, lockHeld, inoCount, builds, entry, proc, opsUsed >>

InitDetect == \E c \in DetectCallsOf(LockFileDirs) : call = c /\ InitQuiet

SpecDetect == InitDetect /\ [][detectArtifactsReturns]_vars

\* ------------------------------------------- the workers of SeedDirectory

\* files in the queue and goroutines that serve it
MaxSeedFiles == 3
MaxWorkers == 2

\* SeedDirectory has walked the source and made the directories (lines
\* 293-344): the files 1..n are in fileChan, which is closed (346-350); the
\* errgroup's context is not done (352); failing names the files whose
\* linkOrCopyFile will fail
SeedDirectoryCalls ==
    { [fn |-> "SeedDirectory",
       in |-> [files |-> n, numWorkers |-> m, failing |-> bad],
       fileChan |-> [x \in 1..n |-> x],
       ctxDone |-> FALSE,
       firstErr |-> 0,
       worker |-> [i \in 1..m |-> [pc |-> "select", f |-> 0]],
       dst |-> {},
       out |-> Pending] :
      n \in 1..MaxSeedFiles, m \in 1..MaxWorkers, bad \in SUBSET (1..MaxSeedFiles) }

PoolFrame ==
    UNCHANGED << artifact, xdev, keyFile, cmdOut, tree, cacheDir, cacheSub,
                 lockFile, lockHeld, inoCount, builds, entry, proc, opsUsed >>

PoolAt(i, pcv) ==
    /\ call.fn = "SeedDirectory"
    /\ i \in DOMAIN call.worker
    /\ call.worker[i].pc = pcv

\* lines 359-361, the select's case <-ctx.Done(): it can proceed once the
\* context is done; the worker returns ctx.Err()
WorkerDone(i) ==
    /\ PoolAt(i, "select")
    /\ call.ctxDone
    /\ call' = [call EXCEPT !.worker[i] = [pc |-> "exit", f |-> 0]]
    /\ PoolFrame

\* lines 362-365, the select's case f, ok := <-fileChan: a closed channel can
\* always proceed, so when the context is done as well the select chooses
\* either case; an empty channel gives !ok and the worker returns nil
WorkerReceive(i) ==
    /\ PoolAt(i, "select")
    /\ call' = IF call.fileChan = << >>
               THEN [call EXCEPT !.worker[i] = [pc |-> "exit", f |-> 0]]
               ELSE [call EXCEPT !.worker[i] = [pc |-> "op", f |-> Head(call.fileChan)],
                                 !.fileChan = Tail(@)]
    /\ PoolFrame

\* lines 367-376: linkOrCopyFile; an error is kept by once.Do as firstErr
\* and the worker function is about to return it
WorkerLink(i) ==
    /\ PoolAt(i, "op")
    /\ LET f == call.worker[i].f
       IN  call' = IF f \in call.in.failing
                   THEN [call EXCEPT !.worker[i] = [pc |-> "return", f |-> f],
                                     !.firstErr = IF @ = 0 THEN f ELSE @]
                   ELSE [call EXCEPT !.worker[i] = [pc |-> "select", f |-> 0],
                                     !.dst = @ \cup {f}]
    /\ PoolFrame

\* line 372, return firstErr: the errgroup cancels its context for the first
\* function that returns an error
WorkerReturnsError(i) ==
    /\ PoolAt(i, "return")
    /\ call' = [call EXCEPT !.worker[i] = [pc |-> "exit", f |-> 0],
                            !.ctxDone = TRUE]
    /\ PoolFrame

\* lines 382-391: g.Wait() returns when every worker has returned
SeedDirectoryReturns ==
    /\ call.fn = "SeedDirectory" /\ call.out = Pending
    /\ \A i \in DOMAIN call.worker : call.worker[i].pc = "exit"
    /\ call' = [call EXCEPT !.out = << call.firstErr >>]
    /\ PoolFrame

NextPool ==
    \/ \E i \in 1..MaxWorkers : WorkerDone(i)
    \/ \E i \in 1..MaxWorkers : WorkerReceive(i)
    \/ \E i \in 1..MaxWorkers : WorkerLink(i)
    \/ \E i \in 1..MaxWorkers : WorkerReturnsError(i)
    \/ SeedDirectoryReturns

InitPool == call \in SeedDirectoryCalls /\ InitQuiet

SpecPool == InitPool /\ [][NextPool]_vars

\* --------------------------------------------------------------- properties

\* the call op of process p has just returned
Returned(p, op) == proc[p].pc = "done" /\ proc[p].op = op

\* the files of a tree, as relative paths
FilesOf(t) == DOMAIN t.files

\* C1: when a Store or a Sync returns, with success or with an error, every
\* file that was under an env_path when the call began is still under that
\* env_path or under <cache_path>/<basename(env_path)>.  A link that fails
\* while Sync links the moved tree back refutes it: the walk has created
\* localPath, so the rename back fails, and the cache path is removed.
C1_NoFileLost ==
    \A p \in Envs :
        proc[p].pc = "done" /\ proc[p].op \in {"store", "sync"} =>
            \A j \in 1..NPaths : \A f \in FilesOf(proc[p].pre[j]) :
                \/ f \in FilesOf(tree[p][j])
                \/ f \in FilesOf(CacheChild(proc[p].key, PathBase(j)))

\* C2: an entry that Prepare reports as a hit holds a directory for every
\* path of the artifact.  Store and SeedFromRoot create cache_path before
\* they fill it, and a Store whose rename fails leaves it empty for good.
C2_ObservableEntryComplete ==
    \A p \in Envs :
        Returned(p, "prepare") /\ entry[p].valid /\ entry[p].Hit =>
            \A j \in 1..NPaths : CacheChild(entry[p].Key, PathBase(j)).exists

\* C3: of two processes that run Sync for the same key at the same time, at
\* most one moves a tree of its working copy into the entry.  With two paths
\* the lock is taken and released for each path, and each process can move
\* one of them.
C3_ExactlyOneMoves ==
    \A p, q \in Envs :
        p # q /\ proc[p].op = "sync" /\ proc[q].op = "sync"
              /\ proc[p].key = proc[q].key
            => ~(proc[p].moved /\ proc[q].moved)

\* C4: while the tree of working copy p is the one a successful Store left,
\* a Prepare from p or from any other working copy with the same key inputs
\* returns an entry with that key and hit = true.
C4_StoreThenPrepareHits ==
    \A p, q \in Envs :
        /\ proc[p].origin.how = "stored"
        /\ Returned(q, "prepare")
        /\ ~KeyOf(q).err /\ KeyOf(q).key = proc[p].origin.key
        => entry[q].valid /\ entry[q].Hit /\ entry[q].Key = proc[p].origin.key

\* a Prepare from the other working copy after a Store that moved a tree
C4_Witness ==
    \E p, q \in Envs :
        /\ p # q
        /\ proc[p].origin = [how |-> "stored", key |-> KeyOf(q).key]
        /\ tree[p][1].exists /\ FilesOf(tree[p][1]) # {}
        /\ Returned(q, "prepare") /\ entry[q].Hit

\* the walk of SeedDirectory leaves f out: f or a directory above it is
\* skipped for the artifact
Skipped(f, artifactName) ==
    \/ shouldSkipPath(f, FALSE, artifactName)
    \/ \E d \in Ancestors(f) : shouldSkipPath(d, TRUE, artifactName)

\* f is removed again by the post-restore fixes of the artifact
FixedAway(f, artifactName) == artifactName \in JsKinds /\ f[1] = ".bin"

SyncStarts(p) == proc[p].pc = "idle" /\ proc'[p].op = "sync"

\* C7, as stated: a Sync that finds the entry of its key returns success at
\* once and changes neither the cache nor the working copy.
C7_SyncOfCachedKeySucceeds ==
    [][ \A p \in Envs :
          SyncStarts(p) /\ dirExistsCache(KeyOf(p).key) =>
             /\ proc'[p].pc = "done" /\ proc'[p].res = "ok"
             /\ UNCHANGED << tree, cacheDir, cacheSub, lockFile >> ]_vars

\* C7, amended: a Sync that finds the entry of its key changes neither the
\* cache nor the working copy, whatever the working copy holds; it returns
\* success, unless a cargo build is in progress in the working copy: then it
\* returns the in-progress error.
C7_SyncOfCachedKeyChangesNothing ==
    [][ \A p \in Envs :
          SyncStarts(p) /\ cacheDir[KeyOf(p).key] =>
             /\ proc'[p].pc = "done"
             /\ proc'[p].res = IF isBuildInProgress(p) THEN "err" ELSE "ok"
             /\ UNCHANGED << tree, cacheDir, cacheSub, lockFile >> ]_vars

\* a Sync has found the entry while the working copy holds a tree with other
\* files than the entry's, and has returned success
C7_Witness ==
    \E p \in Envs :
        /\ Returned(p, "sync") /\ proc[p].found /\ proc[p].res = "ok"
        /\ tree[p][1].exists /\ tree[p] = proc[p].pre
        /\ \E f \in FilesOf(tree[p][1]) :
              LET c == CacheChild(proc[p].key, PathBase(1))
              IN  f \notin FilesOf(c) \/ c.files[f] # tree[p][1].files[f]

\* a Sync with hardlink_back has returned success; no entry existed when it
\* began, no other call ran meanwhile, and the working copy had a tree
SyncCaptured(p) ==
    /\ Returned(p, "sync") /\ proc[p].res = "ok" /\ proc[p].hb
    /\ ~proc[p].found /\ proc[p].solo

\* C8, as stated: after such a Sync the entry holds the tree the working copy
\* had, and the working copy has the same files, each with the inode of the
\* cache copy.
C8_SyncKeepsTreeLinked ==
    \A p \in Envs :
        SyncCaptured(p) =>
            \A j \in 1..NPaths :
                proc[p].pre[j].exists =>
                    LET c == CacheChild(proc[p].key, PathBase(j))
                    IN  /\ FilesOf(c) = FilesOf(proc[p].pre[j])
                        /\ FilesOf(tree[p][j]) = FilesOf(proc[p].pre[j])
                        /\ \A f \in FilesOf(tree[p][j]) :
                              /\ c.files[f].data = proc[p].pre[j].files[f].data
                              /\ tree[p][j].files[f].ino = c.files[f].ino

\* C8, amended: after such a Sync the entry holds the tree the working copy
\* had, and the working copy has the same files with the same bytes; each
\* shares its inode with the cache copy when working copy and cache are on
\* one device, and is a separate copy when they are not.
C8_SyncKeepsTree ==
    \A p \in Envs :
        SyncCaptured(p) =>
            \A j \in 1..NPaths :
                proc[p].pre[j].exists =>
                    LET c == CacheChild(proc[p].key, PathBase(j))
                    IN  /\ FilesOf(c) = FilesOf(proc[p].pre[j])
                        /\ FilesOf(tree[p][j]) = FilesOf(proc[p].pre[j])
                        /\ \A f \in FilesOf(tree[p][j]) :
                              /\ c.files[f].data = proc[p].pre[j].files[f].data
                              /\ tree[p][j].files[f].data = c.files[f].data
                              /\ (tree[p][j].files[f].ino = c.files[f].ino)
                                    <=> (p \notin xdev)

\* such a Sync has returned in a working copy that had two files or more
C8_Witness ==
    \E p \in Envs :
        /\ SyncCaptured(p) /\ proc[p].moved
        /\ proc[p].pre[1].exists /\ Cardinality(FilesOf(proc[p].pre[1])) >= 2

\* C9: a Sync in a working copy whose cargo target directory holds
\* .cargo-lock returns an error and leaves the working copy as it was, for
\* the root cargo artifact and for the nested ones.  The code tests the
\* marker only for the artifact named "cargo", under <env>/target.
C9_NoSyncDuringBuild ==
    \A p \in Envs :
        /\ proc[p].op = "sync" /\ IsCargoKind(artifact)
        /\ CargoLockMarker \in FilesOf(proc[p].pre[1])
        => /\ proc[p].pc = "done" /\ proc[p].res = "err"
           /\ tree[p] = proc[p].pre

\* C10: a Sync in a working copy without the key file returns success,
\* leaves the artifact directory as it was and creates neither cache entry
\* nor lock file.  The code leaves a missing key file out of the hash and
\* goes on with the key of what remains.
C10_MissingKeyFileSkips ==
    \A p \in Envs :
        /\ proc[p].op = "sync" /\ keyFile[p] = NoFile
        /\ CargoLockMarker \notin FilesOf(proc[p].pre[1])
        => /\ proc[p].pc = "done" /\ proc[p].res = "ok"
           /\ tree[p] = proc[p].pre
           /\ ~cacheDir[proc[p].key] /\ ~lockFile[proc[p].key]

\* process p goes from idle into a SeedFromRoot
SeedStarts(p) == proc[p].pc = "idle" /\ proc'[p].op = "seed"

\* the cases of C11 for the call p starts, whose root path is r
SeedSkipCase(p, r) ==
    \/ \A j \in 1..NPaths : ~tree[r][j].exists
    \/ artifact.Name = "cargo" /\ CargoLockMarker \in FilesOf(tree[r][1])
    \/ KeyOf(p).key # KeyOf(r).key
    \/ cacheDir[KeyOf(p).key]

\* what C11 promises of the step that starts the call
SeedIsNoOp(p) ==
    /\ proc'[p].pc = "done" /\ proc'[p].res = "ok"
    /\ UNCHANGED << tree, keyFile, cacheDir, cacheSub, lockFile, lockHeld, inoCount >>

SeedStep(p) ==
    /\ proc'[p].op = "seed"
    /\ proc'[p].pc # proc[p].pc \/ proc'[p].todo # proc[p].todo

\* C12: no step of SeedFromRoot, the byte copy from a root on another device
\* and the return of an error included, changes a file or a directory of
\* root or of the working copy that asked for it (names, inodes, bytes,
\* times), a key file or a lock; what a step writes is in the cache entry.
C12_SeedWritesOnlyCache ==
    [][ \A p \in Envs :
          SeedStep(p) => UNCHANGED << tree, keyFile, lockFile, lockHeld >> ]_vars

\* a SeedFromRoot has copied a file from a root on another device into the
\* entry and has then returned an error
C12_Witness ==
    \E p \in Envs :
        /\ Returned(p, "seed") /\ proc[p].res = "err" /\ Root \in xdev
        /\ \E f \in FilesOf(CacheChild(proc[p].key, PathBase(1))) :
              LET c == CacheChild(proc[p].key, PathBase(1)).files[f]
              IN  /\ c.ino[1] = p
                  /\ f \in FilesOf(tree[Root][1])
                  /\ c.data = tree[Root][1].files[f].data

\* C14: when SeedFromRoot returns an error of the materializer, no cache
\* entry directory exists for the key, and the Prepare that follows is a
\* miss.  seedToCache creates cache_path and SeedDirectory the directories
\* and some of the files before the error, and nothing removes them.
C14_FailedSeedLeavesNoEntry ==
    \A p \in Envs :
        /\ Returned(p, "seed") /\ proc[p].res = "err" /\ ~KeyOf(p).err
        /\ ~proc[p].found /\ proc[p].solo
        => ~cacheDir[proc[p].key]

\* C13: root is built, no build runs in it, and working copy p has root's
\* key.  Once a SeedFromRoot of p, begun without an entry and run alone, has
\* returned success, a Prepare of p for that key reports a hit, and a Restore
\* of that entry into p succeeds and leaves in p exactly the files of root
\* that the walk keeps and the fixes leave, each, when p, root and the cache
\* are on one device, with the inode of the file in root.
C13_SeedThenRestoreSharesRoot ==
    \A p \in Envs :
        proc[p].seeded # "" =>
            /\ Returned(p, "prepare") /\ KeyOf(p).key = proc[p].seeded
                  => entry[p].valid /\ entry[p].Hit /\ entry[p].Key = proc[p].seeded
            /\ Returned(p, "restore") /\ proc[p].key = proc[p].seeded
                  => /\ proc[p].res = "ok"
                     /\ \A j \in 1..NPaths :
                          /\ FilesOf(tree[p][j]) =
                                { f \in FilesOf(tree[Root][j]) :
                                    ~Skipped(f, artifact.Name) /\ ~FixedAway(f, artifact.Name) }
                          /\ p \notin xdev /\ Root \notin xdev =>
                                \A f \in FilesOf(tree[p][j]) :
                                    tree[p][j].files[f].ino = tree[Root][j].files[f].ino

\* p has seeded the entry from root and has restored from it a file that has
\* the inode of root's
C13_Witness ==
    \E p \in Envs :
        /\ proc[p].seeded # "" /\ proc[p].key = proc[p].seeded
        /\ Returned(p, "restore") /\ proc[p].res = "ok" /\ p \notin xdev
        /\ entry[p].Hit
        /\ \E f \in FilesOf(tree[p][1]) :
              tree[p][1].files[f].ino = tree[Root][1].files[f].ino

\* C15: when a Store returns the error of its hardlink-back step, the working
\* copy holds every file it held when the Store began, with the same bytes,
\* and no cache entry directory exists for the key.  StoreToCache returns
\* the HardlinkTree error as it is: it renames nothing back and removes
\* nothing.
C15_FailedStoreRecovers ==
    \A p \in Envs :
        Returned(p, "store") /\ proc[p].res = "err" /\ proc[p].moved =>
            /\ \A j \in 1..NPaths :
                  /\ FilesOf(tree[p][j]) = FilesOf(proc[p].pre[j])
                  /\ \A f \in FilesOf(tree[p][j]) :
                        tree[p][j].files[f].data = proc[p].pre[j].files[f].data
            /\ ~cacheDir[proc[p].key]

\* a call of p has tried to put the artifact tree of a working copy on
\* another device into the cache: no entry existed, no other call ran
SentAcrossDevices(p) ==
    /\ proc[p].pc = "done" /\ proc[p].op \in {"store", "sync"}
    /\ p \in xdev /\ ~proc[p].found /\ proc[p].solo
    /\ proc[p].pre[1].exists
    /\ proc[p].op = "sync" => ~KeyOf(p).err /\ CargoLockMarker \notin FilesOf(proc[p].pre[1])

\* C16: such a call returns success; the entry then holds the files the
\* working copy had, with the same bytes, and the working copy holds them
\* too after a Store and after a Sync with hardlink_back, and has no tree
\* after a Sync without: what the same call leaves on one device, but for
\* the inodes.  StoreToCache returns the cross-device error of os.Rename; it
\* has no copy to fall back on.
C16_CrossDeviceCompletes ==
    \A p \in Envs :
        SentAcrossDevices(p) =>
            /\ proc[p].res = "ok"
            /\ \A j \in 1..NPaths :
                  proc[p].pre[j].exists =>
                     LET c == CacheChild(proc[p].key, PathBase(j))
                     IN  /\ FilesOf(c) = FilesOf(proc[p].pre[j])
                         /\ \A f \in FilesOf(c) :
                               c.files[f].data = proc[p].pre[j].files[f].data
                         /\ IF proc[p].hb
                            THEN /\ FilesOf(tree[p][j]) = FilesOf(proc[p].pre[j])
                                 /\ \A f \in FilesOf(tree[p][j]) :
                                       tree[p][j].files[f].data =
                                           proc[p].pre[j].files[f].data
                            ELSE ~tree[p][j].exists

\* process p takes a step of its Restore
RestoreStep(p) ==
    /\ proc'[p].op = "restore"
    /\ proc'[p].pc # proc[p].pc \/ proc'[p].todo # proc[p].todo

\* C17: no step of a Restore, the post-restore fixes included, changes the
\* files of a cache entry or of root: their names, bytes and times.  The
\* dep- files a Restore links into a cargo target directory are the
\* entry's inodes, and root's when the entry was seeded: os.Chtimes on the
\* restored path sets the times of the file in the entry and in root.
C17_RestoreLeavesCacheAndRoot ==
    [][ \A p \in Envs :
          RestoreStep(p) =>
             /\ UNCHANGED << cacheDir, cacheSub >>
             /\ tree'[Root] = tree[Root] ]_vars

\* C18: after a successful Restore of an artifact of the npm kind, with the
\* base name or with a nested one, nothing is under .bin of the restored
\* node_modules.  ApplyPostRestoreFixes compares the artifact's name with
\* "npm", "yarn", "pnpm" and "bun": for npm-web it does nothing.
C18_NoBinAfterRestore ==
    \A p \in Envs :
        Returned(p, "restore") /\ proc[p].res = "ok" /\ IsNpmKind(artifact) =>
            \A j \in 1..NPaths : \A f \in FilesOf(tree[p][j]) : f[1] # ".bin"

\* C19: after a successful Restore every file under an env_path is a file of
\* the entry's tree with the entry's bytes: the entry's inode when working
\* copy and cache are on one device, and else a copy made by this Restore,
\* not a file the working copy had before.  What was under env_path before
\* and is not in the entry is gone.
C19_RestoreReplaces ==
    \A p \in Envs :
        Returned(p, "restore") /\ proc[p].res = "ok" =>
            \A j \in 1..NPaths :
                LET c == CacheChild(proc[p].key, PathBase(j))
                    before == proc[p].pre[j]
                IN  \A f \in FilesOf(tree[p][j]) :
                       /\ f \in FilesOf(c)
                       /\ tree[p][j].files[f].data = c.files[f].data
                       /\ IF p \in xdev
                          THEN \A g \in FilesOf(before) :
                                  tree[p][j].files[f].ino # before.files[g].ino
                          ELSE tree[p][j].files[f].ino = c.files[f].ino

\* a Restore has returned success in a working copy that had a tree of its
\* own: one of its files is gone, another is now the entry's file
C19_Witness ==
    \E p \in Envs :
        /\ Returned(p, "restore") /\ proc[p].res = "ok" /\ proc[p].pre[1].exists
        /\ FilesOf(proc[p].pre[1]) \ FilesOf(tree[p][1]) # {}
        /\ \E f \in FilesOf(proc[p].pre[1]) \cap FilesOf(tree[p][1]) :
              tree[p][1].files[f].ino # proc[p].pre[1].files[f].ino

\* process p takes a step of a Store, a Sync or a SeedFromRoot
WriterStep(p) ==
    /\ proc'[p].op \in {"store", "sync", "seed"}
    /\ proc'[p].pc # proc[p].pc \/ proc'[p].todo # proc[p].todo

\* C20: a step of a Store, a Sync or a SeedFromRoot that changes the entry of
\* a key (its directory or a tree in it) is taken by the process that holds
\* the flock on <key>.lock.  Only moveToCache takes the lock: StoreToCache
\* and seedToCache create, fill and link the entry without it.
C20_WritesUnderLock ==
    [][ \A p \in Envs : \A k \in DOMAIN cacheDir :
          WriterStep(p) /\ (cacheDir'[k] # cacheDir[k] \/ cacheSub'[k] # cacheSub[k])
             => lockHeld[k] = p ]_vars

\* C21: acquiring an entry's lock has three outcomes: the lock is taken; it
\* is held by another process, and the caller goes on without an error and
\* without writing; or a call of the acquisition failed (creating the
\* directory, opening the lock file, the flock itself), and Sync returns an
\* error.  So a process that leaves the acquisition without the lock while no
\* process holds it returns an error.  A flock that fails for
\* another reason than a holder is taken for contention by the code.
C21_LockFailurePropagates ==
    [][ \A p \in Envs :
          ( /\ proc[p].pc = "sy_lock" /\ proc'[p].pc # "sy_lock"
            /\ lockHeld[proc[p].key] = None
            /\ lockHeld'[proc[p].key] # p )
          => (proc'[p].pc = "done" /\ proc'[p].res = "err") ]_vars

\* the statements of moveToCache after the lock is taken (lines 706-737, with
\* copyToCache), where the deferred release has not yet run
ProtectedRegion ==
    {"sy_check", "sy_mkdir", "sy_rename", "sy_hl_root", "sy_hl_file",
     "hl_failed", "sy_cleanup", "sy_cp_root", "sy_cp_file"}

\* C22: a lock a Sync step has taken is released on every way out of the
\* protected region (entry already there, MkdirAll failed, rename failed,
\* cross-device copy, failed hardlink-back with its recovery, success): a
\* process holds the lock of an entry only while it is inside the protected
\* region of a Sync for that entry, so after Sync has returned it holds none.
C22_LockReleasedOnEveryExit ==
    \A p \in Envs, k \in DOMAIN lockHeld :
        lockHeld[k] = p =>
            /\ proc[p].op = "sync"
            /\ proc[p].pc \in ProtectedRegion
            /\ proc[p].key = k

\* a Sync that took the lock and moved the tree has returned the error of a
\* failed hardlink-back after its recovery, and the lock is free
C22_Witness ==
    \E p \in Envs :
        /\ Returned(p, "sync") /\ proc[p].res = "err" /\ proc[p].moved
        /\ lockFile[proc[p].key]
        /\ lockHeld[proc[p].key] = None

\* process p executes the acquisition while another process holds the lock
ContendedStep(p) ==
    /\ proc[p].pc = "sy_lock"
    /\ lockHeld[proc[p].key] \notin {None, p}
    /\ << proc'[p].pc, proc'[p].i >> # << proc[p].pc, proc[p].i >>

\* C23: no cache operation waits for another process.  A Sync that finds the
\* lock of its entry held does not wait: the acquisition is a step it can
\* always take, it writes nothing and fails nothing, and the Sync goes on to
\* return success; so while the other process keeps the lock for ever (it is
\* never scheduled again), the Sync of the running process, once at the
\* acquisition, returns after finitely many of its own steps.
C23_SyncNeverWaits ==
    /\ [][ \A p \in Envs :
             ContendedStep(p) =>
                 /\ UNCHANGED << tree, cacheDir, cacheSub, lockFile, lockHeld >>
                 /\ proc'[p].res # "err"
                 /\ proc'[p].pc = "done" => proc'[p].res = "ok" ]_vars
    /\ (proc[Runner].op = "sync" /\ proc[Runner].pc = "sy_lock")
            ~> (proc[Runner].op = "sync" /\ proc[Runner].pc = "done")

\* the running process has returned success from a Sync of an existing tree
\* that moved nothing, while the other process is inside the protected
\* region with the lock
C23_Witness ==
    \E q \in Envs \ {Runner} :
        /\ Returned(Runner, "sync") /\ proc[Runner].res = "ok"
        /\ ~proc[Runner].moved /\ ~proc[Runner].found
        /\ tree[Runner] = proc[Runner].pre
        /\ \E j \in 1..NPaths : tree[Runner][j].exists
        /\ lockHeld[proc[Runner].key] = q
        /\ proc[q].pc \in ProtectedRegion

\* process p is inside the protected region of a Sync: it has the handle of
\* the lock it took
HoldsLock(p) == proc[p].op = "sync" /\ proc[p].pc \in ProtectedRegion

\* two processes are not both inside the protected region for one entry
LockExcludes ==
    \A p, q \in Envs :
        (p # q /\ HoldsLock(p) /\ HoldsLock(q)) => proc[p].key # proc[q].key

\* C24: a lock file <key>.lock, once created, is deleted by no cache
\* operation (Store, Sync, SeedFromRoot, Remove, RemoveAll), so that two
\* processes contending for an entry lock the same file and never both hold
\* the entry's lock.  RemoveAll deletes the lock files with the cache
\* directory.
C24_LockFileNeverDeleted ==
    /\ [][ \A k \in DOMAIN lockFile : lockFile[k] => lockFile'[k] ]_vars
    /\ []LockExcludes

\* PrepareArtifactCache has returned, and what it has returned
PrepareReturned == call.fn = "PrepareArtifactCache" /\ call.out # Pending

PrepareOut == call.out[1]

\* process p calls PrepareArtifactCache, which returns in the same step
PrepareStep(p) ==
    proc[p].pc = "idle" /\ proc'[p].pc = "done" /\ proc'[p].op = "prepare"

\* C25: Prepare returns one entry for each configured artifact, in the order
\* of the configuration; an entry has the artifact's name and key, hit is true
\* exactly if its cache_path is a directory at that moment, and its env_paths
\* are the working-copy path joined with each configured path.  Prepare
\* changes nothing on disk, and when the key of an artifact cannot be
\* computed it returns an error and no entry.
C25_PrepareReturnsEntriesInOrder ==
    /\ [](PrepareReturned =>
           LET in == call.in
               key(i) == ComputeCacheKeyAt(in.artifacts[i], in.envPath, in.disk, in.run)
           IN  IF \E i \in 1..Len(in.artifacts) : key(i).err
               THEN PrepareOut.err /\ PrepareOut.entries = << >>
               ELSE /\ ~PrepareOut.err
                    /\ Len(PrepareOut.entries) = Len(in.artifacts)
                    /\ \A i \in 1..Len(in.artifacts) :
                          LET a == in.artifacts[i]
                              e == PrepareOut.entries[i]
                          IN  /\ e.Name = a.Name
                              /\ e.Key = key(i).key
                              /\ e.CachePath =
                                    Join(LocalCacheDir,
                                         <<Base(in.rootPath), a.Name, key(i).key>>)
                              /\ e.Hit <=> e.CachePath \in in.dirs
                              /\ Len(e.EnvPaths) = Len(a.Paths)
                              /\ \A j \in 1..Len(a.Paths) :
                                    e.EnvPaths[j] = in.envPath \o a.Paths[j])
    /\ [][ \A p \in Envs :
             PrepareStep(p) =>
                 /\ UNCHANGED << tree, keyFile, cacheDir, cacheSub, lockFile, lockHeld >>
                 /\ IF KeyOf(p).err
                    THEN proc'[p].res = "err" /\ entry'[p] = NoEntry
                    ELSE /\ proc'[p].res = "ok"
                         /\ entry'[p].valid /\ entry'[p].Key = KeyOf(p).key
                         /\ entry'[p].Hit <=> cacheDir[KeyOf(p).key] ]_vars

\* Prepare has returned the entries of two artifacts of different names, the
\* first a miss and the second a hit
C25_Witness ==
    /\ PrepareReturned /\ ~PrepareOut.err
    /\ Len(call.in.artifacts) = 2
    /\ call.in.artifacts[1].Name = "npm" /\ call.in.artifacts[2].Name = "assets"
    /\ ~PrepareOut.entries[1].Hit /\ PrepareOut.entries[2].Hit

\* ComputeCacheKey has returned
KeyReturned == call.fn = "ComputeCacheKey" /\ call.out # Pending

\* what it has returned
KeyOut == call.out[1]

\* the files of a disk under the directory from, moved under the directory to
Relocate(disk, from, to) ==
    [ g \in { Join(to, SubSeq(h, Len(from) + 1, Len(h))) : h \in DOMAIN disk } |->
        disk[Join(from, SubSeq(g, Len(to) + 1, Len(g)))] ]

\* C26: the key is a function of the bytes of the key files, in configured
\* order, followed by the outputs of the key commands, in configured order.
\* With the same files and outputs the key is the same whatever the
\* artifact's name and wherever the working copy is, and no step of a cache
\* operation changes the key of a working copy (it does not depend on the
\* state of the cache); replacing the bytes of one key file, or the output of
\* one key command, by other bytes gives another key.  (The digest is taken
\* as free of collisions; its 16 hexadecimal characters are not computed.)
C26_KeyIsFunctionOfInputs ==
    /\ [](KeyReturned =>
           LET a == call.in.artifact
               env == call.in.envPath
               disk == call.in.disk
               run == call.in.run
           IN  /\ \A name \in ArtifactNames, to \in Locations :
                     ComputeCacheKeyAt([a EXCEPT !.Name = name], to,
                                       Relocate(disk, env, to), run) = KeyOut
               /\ ~KeyOut.err =>
                     /\ \A i \in 1..Len(a.KeyFiles), bytes \in FileContents \ {ReadFail} :
                           LET g == Join(env, a.KeyFiles[i])
                           IN  (g \in DOMAIN disk /\ bytes # disk[g]) =>
                                 ComputeCacheKeyAt(a, env, [disk EXCEPT ![g] = bytes],
                                                   run).key # KeyOut.key
                     /\ \A i \in 1..Len(a.KeyCommands), o \in Outputs \ {CmdFail} :
                           LET c == a.KeyCommands[i]
                           IN  o # run[c] =>
                                 ComputeCacheKeyAt(a, env, disk, [run EXCEPT ![c] = o]).key
                                     # KeyOut.key)
    /\ [][ \A w \in WCs : KeyOf(w)' = KeyOf(w) ]_vars

\* a key has been computed from two key files that hold bytes and from two
\* key commands
C26_Witness ==
    /\ KeyReturned /\ ~KeyOut.err
    /\ Len(call.in.artifact.KeyFiles) = 2 /\ Len(call.in.artifact.KeyCommands) = 2
    /\ \A i \in 1..2 :
          /\ Join(call.in.envPath, KeyFileNames[i]) \in DOMAIN call.in.disk
          /\ call.in.disk[Join(call.in.envPath, KeyFileNames[i])] # ""

\* C27: a key file that is missing is no error and adds nothing to the key:
\* the key is the one computed with that file present and empty, and the one
\* computed for the artifact without that key file (from the other key files
\* and the key commands alone); an error of the call is that of another key
\* file, which cannot be read, or of a key command.
C27_MissingKeyFileAddsNothing ==
    KeyReturned =>
        LET a == call.in.artifact
            env == call.in.envPath
            disk == call.in.disk
            run == call.in.run
        IN  \A i \in 1..Len(a.KeyFiles) :
                LET g == Join(env, a.KeyFiles[i])
                IN  g \notin DOMAIN disk =>
                      /\ KeyOut = ComputeCacheKeyAt(a, env, (g :> "") @@ disk, run)
                      /\ KeyOut = ComputeCacheKeyAt(
                                        [a EXCEPT !.KeyFiles = RemoveAt(@, i)],
                                        env, disk, run)
                      /\ KeyOut.err =>
                            \/ \E h \in DOMAIN disk : disk[h] = ReadFail
                            \/ \E c \in DOMAIN run : run[c] = CmdFail

\* a key has been computed for an artifact whose first key file is missing
\* and whose second key file holds bytes
C27_Witness ==
    /\ KeyReturned /\ ~KeyOut.err
    /\ Len(call.in.artifact.KeyFiles) = 2 /\ Len(call.in.artifact.KeyCommands) >= 1
    /\ Join(call.in.envPath, KeyFileNames[1]) \notin DOMAIN call.in.disk
    /\ Join(call.in.envPath, KeyFileNames[2]) \in DOMAIN call.in.disk
    /\ call.in.disk[Join(call.in.envPath, KeyFileNames[2])] = "ab"

\* GetArtifactCachePath has returned
PathReturned == call.fn = "GetArtifactCachePath" /\ call.out # Pending

\* C29: the project token is a function of the root path that gives two
\* different root paths different tokens, so that the entries of two
\* projects never have one directory <project>/<artifact>/<key>.  The token
\* is the last component of the root path, which two roots can share.
C29_ProjectsHaveOwnDirectories ==
    PathReturned =>
        \A other \in RootPaths \ {call.in.rootPath} :
            /\ GetProjectName(other) # GetProjectName(call.in.rootPath)
            /\ GetArtifactCachePath(other, call.in.artifactName, call.in.key)
                   # call.out[1]

\* the init flow has set MONO_CACHE_HIT
InitReturned == call.fn = "Init" /\ call.out # Pending

\* C30: MONO_CACHE_HIT is true exactly if every configured artifact has, after
\* Prepare and seeding, an entry that is a hit and was restored; it is false
\* when an artifact missed, a restore failed, or the cache was not prepared.
C30_CacheHitIffAllArtifactsHit ==
    InitReturned =>
        (call.out[1].allHit <=>
            /\ Len(call.out[1].entries) = call.in.n
            /\ \A i \in 1..call.in.n : call.out[1].entries[i])

\* process p calls an operation that computes the key of its working copy:
\* Prepare, Sync, or SeedFromRoot with another root than the working copy
BeginsKeyed(p) ==
    /\ proc[p].pc = "idle" /\ proc'[p].pc # "idle"
    /\ proc'[p].op \in {"prepare", "sync", "seed"}
    /\ ~(proc'[p].op = "seed" /\ proc'[p].src = p)

ZeroFiles(t) == DOMAIN t.files = {}

\* the call op of p has run alone, for a key without entry, from a working
\* copy with zero files under every artifact path, and has returned
ReturnedFromEmpty(p, op) ==
    /\ Returned(p, op) /\ proc[p].solo /\ ~proc[p].found
    /\ proc[p].key \in DOMAIN cacheDir
    /\ \A j \in 1..NPaths : ZeroFiles(proc[p].pre[j])

\* C31: Store and Sync of an artifact whose paths have zero files under them
\* are no-ops: no cache entry is created and the working copy is as it was.
C31_EmptyPathIsNoOp ==
    \A p \in Envs :
        ReturnedFromEmpty(p, "store") \/ ReturnedFromEmpty(p, "sync") =>
            /\ ~cacheDir[proc[p].key]
            /\ tree[p] = proc[p].pre

\* RemoveCacheEntry has returned
RemoveReturned == call.fn = "RemoveCacheEntry" /\ call.out # Pending

\* the paths of the removed entry and of its two parents
RemovedPath == Join(LocalCacheDir, <<call.in.projectName, call.in.artifact, call.in.cacheKey>>)
ArtifactParent == Join(LocalCacheDir, <<call.in.projectName, call.in.artifact>>)
ProjectParent == Join(LocalCacheDir, <<call.in.projectName>>)

\* C32: RemoveCacheEntry deletes the tree of that entry, and then of its
\* parents <artifact> and <project> those that are empty; every other
\* directory and file of the cache is kept with its bytes, and GetCacheSizes
\* then lists the entries it listed before without the removed one.
C32_RemoveDeletesOneEntry ==
    RemoveReturned =>
        LET before == call.in.fs
            after == call.out[1].fs
            rest == RemoveAll(before, RemovedPath)
            artifactEmpty == ReadDir(rest, ArtifactParent) = {}
            projectEmpty == artifactEmpty /\ ReadDir(rest, ProjectParent) = {ArtifactParent}
        IN  /\ \A q \in after.dirs \cup DOMAIN after.files : ~Under(RemovedPath, q)
            /\ after.dirs \subseteq before.dirs
            /\ DOMAIN after.files = { f \in DOMAIN before.files : ~Under(RemovedPath, f) }
            /\ \A f \in DOMAIN after.files : after.files[f] = before.files[f]
            /\ \A d \in before.dirs :
                  ~Under(RemovedPath, d) /\ d \notin {ArtifactParent, ProjectParent}
                      => d \in after.dirs
            /\ ArtifactParent \in before.dirs =>
                  (ArtifactParent \in after.dirs <=> ~artifactEmpty)
            /\ ProjectParent \in before.dirs =>
                  (ProjectParent \in after.dirs <=> ~projectEmpty)
            /\ call.out[1].listed =
                  { e \in GetCacheSizes(before) :
                      <<e.ProjectName, e.Artifact, e.CacheKey>> #
                      <<call.in.projectName, call.in.artifact, call.in.cacheKey>> }

\* an entry was removed whose artifact directory became empty and was pruned,
\* while its project keeps the entry of another artifact, and another
\* project keeps an entry of the same artifact and key
C32_Witness ==
    /\ RemoveReturned
    /\ RemovedPath \in call.in.fs.dirs
    /\ ArtifactParent \notin call.out[1].fs.dirs
    /\ ProjectParent \in call.out[1].fs.dirs
    /\ Cardinality(call.out[1].listed) = 2
    /\ \E e \in call.out[1].listed :
          e.ProjectName # call.in.projectName /\ e.CacheKey = call.in.cacheKey /\ e.Size > 0

\* the working copy has been scanned n times
Scanned(n) == call.fn = "detectArtifacts" /\ Len(call.out) >= n

\* the names of the directories that are not scanned
Skiplisted == {"node_modules", "target", ".git", "vendor", "dist", "build", ".next", ".nuxt"}

\* C33: two scans of one unchanged working copy give the same list of
\* artifacts in the same order, and no artifact comes from a lock file that
\* is anywhere below a skiplisted directory.
C33_DetectionIsStable ==
    /\ Scanned(2) => call.out[1].artifacts = call.out[2].artifacts
    /\ Scanned(1) =>
          \A i \in 1..Len(call.out) :
              \A x \in 1..Len(call.out[i].artifacts) :
                  LET keyFile1 == call.out[i].artifacts[x].KeyFiles[1]
                  IN  /\ keyFile1 \in call.in.fs.files
                      /\ \A j \in 1..Len(keyFile1) - 1 : keyFile1[j] \notin Skiplisted

\* a working copy with a lock file below vendor, one below a/node_modules
\* and one that gives an artifact has been scanned twice
C33_Witness ==
    /\ Scanned(2) /\ call.in.envPath = <<"work", "a">>
    /\ \E f \in call.in.fs.files : f[1] = "vendor"
    /\ \E f \in call.in.fs.files : Len(f) = 3 /\ f[2] = "node_modules"
    /\ Len(call.out[2].artifacts) = 1

\* the place of a name in the order of the bytes
Pos(name) == CHOOSE i \in 1..Len(NameOrder) : NameOrder[i] = name

\* the file p is visited before the file q by a walk in lexical order
Before(p, q) ==
    \E i \in 1..Len(p) :
        /\ i <= Len(q)
        /\ SubSeq(p, 1, i - 1) = SubSeq(q, 1, i - 1)
        /\ Pos(p[i]) < Pos(q[i])

\* the name the claim gives the artifact of a lock file
NameFor(f) ==
    IF Len(f.relPath) = 1 THEN f.spec.baseType
    ELSE f.spec.baseType \o "-" \o sanitizeName(Dir(f.relPath))

\* C34: of the lock files the scan finds, one of kind K in the root gives the
\* artifact K with K's output directory as path; one in a/b/c gives the
\* name K-a-b-c (hyphens for separators and dots, lower case), the key file
\* a/b/c/<lockfile> and the path a/b/c/<output-dir>; of the lock files with
\* one name the first in walk order gives the artifact, and the artifacts
\* are in walk order.
C34_ArtifactOfLockFile ==
    Scanned(1) =>
        \A s \in 1..Len(call.out) :
            LET found == call.out[s].found
                arts == call.out[s].artifacts
                First(x) == CHOOSE y \in 1..x :
                               /\ NameFor(found[y]) = NameFor(found[x])
                               /\ \A z \in 1..y - 1 : NameFor(found[z]) # NameFor(found[x])
            IN  /\ \A x, y \in 1..Len(found) :
                      x < y => Before(found[x].relPath, found[y].relPath)
                /\ \A x \in 1..Len(found) :
                      \E z \in 1..Len(arts) :
                          LET f == found[First(x)]
                          IN  /\ arts[z].Name = NameFor(found[x])
                              /\ arts[z].KeyFiles = << f.relPath >>
                              /\ arts[z].KeyCommands = << f.spec.keyCommand >>
                              /\ arts[z].Paths = << Dir(f.relPath) \o <<f.spec.artifactDir>> >>
                /\ \A z, w \in 1..Len(arts) :
                      /\ z # w => arts[z].Name # arts[w].Name
                      /\ z < w => Before(arts[z].KeyFiles[1], arts[w].KeyFiles[1])
                      /\ \E x \in 1..Len(found) : arts[z].Name = NameFor(found[x])
                /\ \A x \in 1..Len(found) :
                      /\ found[x].relPath = <<"Cargo.lock">> =>
                            \E z \in 1..Len(arts) :
                                arts[z].Name = "cargo" /\ arts[z].Paths = << <<"target">> >>
                      /\ found[x].relPath = <<"Web", "a.b", "bun.lockb">> =>
                            \E z \in 1..Len(arts) : arts[z].Name = "bun-web-a-b"
                      /\ found[x].relPath = <<"a", "b", "package-lock.json">> =>
                            \E z \in 1..Len(arts) :
                                /\ arts[z].Name = "npm-a-b"
                                /\ arts[z].Paths = << <<"a", "b", "node_modules">> >>

\* three lock files were found, two of them give the name cargo-a-b: the
\* artifact is that of a/b, which the walk visits before a.b
C34_Witness ==
    /\ Scanned(1)
    /\ Len(call.out[1].found) = 3 /\ Len(call.out[1].artifacts) = 2
    /\ <<"a.b", "Cargo.lock">> \in call.in.fs.files
    /\ \E z \in 1..2 :
          /\ call.out[1].artifacts[z].Name = "cargo-a-b"
          /\ call.out[1].artifacts[z].KeyFiles = << <<"a", "b", "Cargo.lock">> >>
    /\ \E z \in 1..2 : call.out[1].artifacts[z].Name = "bun-web-a-b"

\* C40: the artifacts depend on what is in the working copy and not on the
\* path of the working copy: a lock file in its root gives the artifact of
\* its kind also when the working copy's directory has a skiplisted name.
C40_DetectionIgnoresOwnPath ==
    Scanned(1) =>
        /\ \A env \in EnvPaths :
              detectArtifacts(call.in.fs, env, NameOrder) = call.out[1].artifacts
        /\ \A i \in 1..Len(lockFileSpecs) :
              << lockFileSpecs[i].filename >> \in call.in.fs.files =>
                  \E z \in 1..Len(call.out[1].artifacts) :
                      call.out[1].artifacts[z].Name = lockFileSpecs[i].baseType

\* EnvVars has returned
EnvVarsReturned == call.fn = "EnvVars" /\ call.out # Pending

\* C35: the hints include RUSTC_WRAPPER=sccache exactly if sccache was found
\* on PATH and the override of the build configuration is not false (it is
\* unset or true).
C35_SccacheHint ==
    EnvVarsReturned =>
        ((\E i \in 1..Len(call.out[1]) : call.out[1][i] = "RUSTC_WRAPPER=sccache")
            <=> (call.in.SccacheAvailable /\ call.in.cfg.Sccache \in {"nil", "true"}))

\* sccache is on PATH and the configuration says sccache: false
C35_Witness ==
    /\ EnvVarsReturned
    /\ call.in.SccacheAvailable /\ call.in.cfg.Sccache = "false"
    /\ call.out[1] = << >>

\* no cache operation is in progress
Quiescent == \A q \in Envs : proc[q].pc \in {"idle", "done"}

\* C36: in a cache at rest an entry that Prepare reports as a hit holds a
\* tree for the artifact's paths, and the Restore of a hit succeeds and
\* leaves every env_path a directory.
C36_HitCanBeRestored ==
    /\ Quiescent =>
          \A k \in DOMAIN cacheDir :
              dirExistsCache(k) => \E c \in DOMAIN cacheSub[k] : cacheSub[k][c].exists
    /\ \A p \in Envs :
          Returned(p, "restore") /\ proc[p].solo =>
              /\ proc[p].res = "ok"
              /\ \A j \in 1..NPaths : tree[p][j].exists

\* C37: the paths of an artifact are kept at different places in its entry,
\* so that a later Restore can return to each path its own tree: after a
\* Store or a Sync that ran alone, found no entry and returned success, the
\* entry holds for each path, at the place Restore reads for that path, the
\* files and the bytes that path had when the call began.
C37_PathsKeptApart ==
    \A p \in Envs :
        (/\ Returned(p, "store") \/ Returned(p, "sync")
         /\ proc[p].res = "ok" /\ ~proc[p].found /\ proc[p].solo) =>
            \A j \in 1..NPaths :
                proc[p].pre[j].exists =>
                    LET c == CacheChild(proc[p].key, PathBase(j))
                    IN  /\ FilesOf(c) = FilesOf(proc[p].pre[j])
                        /\ \A f \in FilesOf(c) :
                              c.files[f].data = proc[p].pre[j].files[f].data

\* a tree holds the files of another one, each with the same bytes
Holds(t, u) ==
    /\ t.exists
    /\ FilesOf(u) \subseteq FilesOf(t)
    /\ \A f \in FilesOf(u) : t.files[f].data = u.files[f].data

\* the entry of key k holds nothing but what working copy w has built
EntryFrom(k, w) ==
    \A j \in 1..NPaths :
        LET c == CacheChild(k, PathBase(j))
            b == BuiltTree(artifact, w, j)
        IN  c.exists => FilesOf(c) = FilesOf(b) /\ Holds(c, b)

\* C38: when two processes Store one key at the same time, the entry never
\* holds a mixture of the two working copies' trees, and a working copy
\* whose Store has returned, with success or with an error, holds every
\* file it had when the call began.
C38_ConcurrentStoresKeepOneTree ==
    /\ \A k \in Keys : \E w \in Envs : EntryFrom(k, w)
    /\ \A p \in Envs :
          Returned(p, "store") =>
              \A j \in 1..NPaths :
                  proc[p].pre[j].exists => Holds(tree[p][j], proc[p].pre[j])

\* C39: in SeedDirectory's worker pool, once a worker has reported an error
\* (the errgroup's context is done) no worker takes another file from the
\* queue: a step never moves a worker into a file operation then.
C39_NoNewWorkAfterError ==
    [][ (call.fn = "SeedDirectory" /\ call.ctxDone) =>
            \A i \in DOMAIN call.worker :
                call'.worker[i].pc = "op" => call.worker[i].pc = "op" ]_vars

====
